---- MODULE Spec2Model ----
(***************************************************************************)
(* Model of the Subnet Coordinator Actor (SCA) of the hierarchical         *)
(* consensus builtin actors: actors/hierarchical_sca/src/lib.rs and the    *)
(* helpers it calls.  One action per actor method; every method runs as    *)
(* one transaction: on error nothing of the state is written.              *)
(*                                                                         *)
(* SubnetIDs are sequences of subnet-actor addresses below the root:       *)
(* <<>> is /root, <<"s1">> is /root/s1, <<"s1","s2">> is /root/s1/s2.      *)
(* Token amounts are counted in units of half the minimum collateral.      *)
(***************************************************************************)
EXTENDS Integers, Sequences, FiniteSets, TLC

\* ------------------------------------------------------------------ bounds
MaxValue == 1        \* largest amount carried by one call
MaxStake == 3        \* calls that would raise a stake above this are not taken
MaxNonce == 2        \* calls that would raise a nonce above this are not taken
MaxApplied == 2      \* cross-messages applied in each direction over a run
MaxEpoch == 1        \* the host's epoch runs over 0..MaxEpoch
MaxChecks == 2       \* child checkpoints accepted over a run
MaxExecs == 1        \* atomic executions initialized over a run
MaxCalls == 3        \* calls that return OK, and epochs that pass, over a run
MaxDepth == 2        \* subnets lie at most this far below the root
MaxRouted == 1       \* calls taken by the SCA of any subnet over a run

\* --------------------------------------------------------------- constants
\* the absent value of an Option holding a record, and of a return without data
None == [none |-> TRUE]
\* Some(x) of an Option holding a string
Some(x) == [some |-> x]
\* the address no actor has (an address that does not resolve)
NoAddress == "none"
OK == "OK"
USR_ILLEGAL_ARGUMENT == "USR_ILLEGAL_ARGUMENT"
USR_ILLEGAL_STATE == "USR_ILLEGAL_STATE"
USR_FORBIDDEN == "USR_FORBIDDEN"
SYS_SENDER_STATE_INVALID == "SYS_SENDER_STATE_INVALID"

MIN_SUBNET_COLLATERAL == 2
DEFAULT_CHECKPOINT_PERIOD == 2
NoNonce == -1

METHOD_SEND == 0
METHOD_ABORT == 4
METHOD_UNLOCK == 5
SubmitAtomicExec == 13
EXTERNAL_FUNDING_METHOD == 5

BURNT_FUNDS_ACTOR_ADDR == "burn"
REWARD_ACTOR_ADDR == "reward"
SCA_ACTOR_ADDR == "sca"
SYSTEM_ACTOR_ADDR == "system"

ROOTNET_ID == << >>
\* SubnetID::default(), the undefined subnet; also what parent() and down()
\* return when there is no such subnet
SubnetID_default == <<"">>

SubnetActors == {"s1", "s2"}
Accounts == {"a", "b", "c", "d"}
\* the public-key address of each account, and the id a key resolves to
PubKey == [a |-> "ka", b |-> "kb", c |-> "kc", d |-> "kd"]
Values == 1..MaxValue

Active == "Active"
Inactive == "Inactive"
Killed == "Killed"

BottomUp == "BottomUp"
TopDown == "TopDown"

Initialized == "Initialized"
Success == "Success"
Aborted == "Aborted"

\* caller types checked by validate_immediate_caller_type / _is
CallerType(addr) ==
  IF addr \in SubnetActors THEN "Subnet"
  ELSE IF addr \in Accounts THEN "Account"
  ELSE IF addr = SYSTEM_ACTOR_ADDR THEN "System"
  ELSE "Other"

CALLER_TYPES_SIGNABLE == {"Account"}

\* ------------------------------------------------------- small arithmetic
Min2(a, b) == IF a < b THEN a ELSE b

RECURSIVE SumSeq(_, _)
SumSeq(s, n) == IF n = 0 THEN 0 ELSE s[n] + SumSeq(s, n - 1)

Range(f) == {f[x] : x \in DOMAIN f}

\* ------------------------------------------------------- SubnetID algebra
SubnetID_new(parent_id, addr) == Append(parent_id, addr)

SubnetID_parent(sn) ==
  IF Len(sn) = 0 THEN SubnetID_default ELSE SubSeq(sn, 1, Len(sn) - 1)

RECURSIVE SharedLen(_, _, _)
SharedLen(a, b, n) ==
  IF n < Len(a) /\ n < Len(b) /\ a[n + 1] = b[n + 1]
  THEN SharedLen(a, b, n + 1) ELSE n

\* the shared prefix of the two paths; index counts its components, /root
\* included (the path "/root/s1" has index 2), as is_bottomup expects
common_parent(a, b) ==
  LET n == SharedLen(a, b, 0) IN [index |-> n + 1, id |-> SubSeq(a, 1, n)]

\* the next subnet below curr on the way to sn
SubnetID_down(sn, curr) ==
  IF Len(curr) < Len(sn) /\ SubSeq(sn, 1, Len(curr)) = curr
  THEN SubSeq(sn, 1, Len(curr) + 1) ELSE SubnetID_default

new_hierarchical(sn, raw) == [subnet |-> sn, raw |-> raw]

\* ------------------------------------------------ message classification
\* number of components of the path string "/root/..." (root dir included)
PathComponents(sn) == Len(sn) + 2

\* a message that stays at the level of its sender counts as going up
is_bottomup_or_level(from, to) ==
  PathComponents(from) - 1 >= common_parent(from, to).index

is_bottomup(from, to) ==
  PathComponents(from) - 1 > common_parent(from, to).index

hc_type(msg) ==
  IF is_bottomup(msg.from.subnet, msg.to.subnet) THEN BottomUp ELSE TopDown

\* the direction of the message, wherever it is applied
apply_type_native(msg, curr) == hc_type(msg)

\* a message that came up from below stays bottom-up in every subnet at or
\* above the common parent of its ends
apply_type_upward(msg, curr) ==
  IF common_parent(curr, msg.to.subnet).index
       <= common_parent(msg.from.subnet, msg.to.subnet).index
     /\ hc_type(msg) = BottomUp
  THEN BottomUp ELSE TopDown

apply_type(msg, curr) ==
  IF common_parent(curr, msg.to.subnet) = common_parent(msg.from.subnet, msg.to.subnet)
     /\ hc_type(msg) = BottomUp
  THEN BottomUp ELSE TopDown

\* ------------------------------------------------------------ the state
VARIABLES
  st,          \* the SCA State object
  balance,     \* rt.current_balance()
  curr_epoch,  \* rt.curr_epoch()
  released,    \* per registered subnet: value released by its checkpoints
  applied,     \* nonces of the cross-messages applied, per direction
  last,        \* the last method call that returned: method and exit code
  calls,       \* number of calls that returned OK and of epochs that passed
  handle,      \* a TCid handle on its own: its Cid and the type it is declared
               \* with (None where State keeps its collections by value)
  store,       \* the blocks of the store the handle is used with
  route        \* the hops of a cross-message relayed from SCA to SCA: the
               \* subnet, what its SCA did with the message, and the message
               \* as it left (empty where a single SCA is looked at)

vars == <<st, balance, curr_epoch, released, applied, last, calls, handle, store, route>>

\* result of a method: exit code, resulting state, sends issued, return value
Ok(s, sends, ret) == [code |-> OK, st |-> s, sends |-> sends, ret |-> ret]
Err(s, code, sends) == [code |-> code, st |-> s, sends |-> sends, ret |-> None]

\* rt.send: funding is what the reward actor mints to the SCA on the send
Send(to, method, value) ==
  [to |-> to, method |-> method, value |-> value, funding |-> 0]

ExternalFunding(value) ==
  [to |-> REWARD_ACTOR_ADDR, method |-> EXTERNAL_FUNDING_METHOD, value |-> 0,
   funding |-> value]

SendsValue(sends) == SumSeq([i \in 1..Len(sends) |-> sends[i].value], Len(sends))

SendsFunding(sends) == SumSeq([i \in 1..Len(sends) |-> sends[i].funding], Len(sends))

\* ------------------------------------------------ content-addressed data
\* a Cid identifies its content: the model uses the content as its own hash
Cid(content) == [cid |-> content]

\* an Amt is a map from u64 keys to values; set overwrites the key
EmptyAmt == [k \in {} |-> None]

AmtSet(amt, key, value) ==
  [k \in DOMAIN amt \cup {key} |-> IF k = key THEN value ELSE amt[k]]

\* ------------------------------------------------------------- registry
get_subnet(s, id) == IF id \in DOMAIN s.subnets THEN s.subnets[id] ELSE None

flush_subnet(s, sub) ==
  [s EXCEPT !.subnets =
     [id \in DOMAIN s.subnets \cup {sub.id} |->
        IF id = sub.id THEN sub ELSE s.subnets[id]]]

NewSubnet(id, val) ==
  [id |-> id, stake |-> val, top_down_msgs |-> EmptyAmt, nonce |-> 0,
   circ_supply |-> 0, status |-> Active, prev_checkpoint |-> None]

\* State::register_subnet: Err is returned as None
register_subnet(s, id, val) ==
  IF val < s.min_stake THEN None
  ELSE IF id \in DOMAIN s.subnets THEN s
  ELSE [flush_subnet(s, NewSubnet(id, val)) EXCEPT !.total_subnets = @ + 1]

\* the record is marked as killed and stays in the registry
rm_subnet_marks_killed(s, id) ==
  IF id \in DOMAIN s.subnets
  THEN [s EXCEPT !.subnets[id].status = Killed, !.total_subnets = @ - 1]
  ELSE s

rm_subnet(s, id) ==
  IF id \in DOMAIN s.subnets
  THEN [s EXCEPT !.subnets = [x \in DOMAIN s.subnets \ {id} |-> s.subnets[x]],
                 !.total_subnets = @ - 1]
  ELSE s

\* the stake is changed and the status is left as it is
Subnet_add_stake_keeps_status(sub, s, value) ==
  [sub EXCEPT !.stake = sub.stake + value]

\* Subnet::add_stake: the subnet with its stake changed, not yet flushed
Subnet_add_stake(sub, s, value) ==
  LET stake == sub.stake + value IN
  [sub EXCEPT !.stake = stake,
              !.status = IF stake < s.min_stake THEN Inactive ELSE @]

\* the registry is not looked up before the subnet is registered
register_unchecked(s, caller, value) ==
  IF CallerType(caller) # "Subnet" THEN Err(s, USR_FORBIDDEN, << >>)
  ELSE LET shid == SubnetID_new(s.network_name, caller)
           r == register_subnet(s, shid, value) IN
    IF r = None THEN Err(s, USR_ILLEGAL_ARGUMENT, << >>)
    ELSE Ok(r, << >>, shid)

\* Actor::register
register(s, caller, value) ==
  IF CallerType(caller) # "Subnet" THEN Err(s, USR_FORBIDDEN, << >>)
  ELSE LET shid == SubnetID_new(s.network_name, caller) IN
    IF get_subnet(s, shid) # None THEN Err(s, USR_ILLEGAL_ARGUMENT, << >>)
    ELSE LET r == register_subnet(s, shid, value) IN
      IF r = None THEN Err(s, USR_ILLEGAL_ARGUMENT, << >>)
      ELSE Ok(r, << >>, shid)

add_stake(s, caller, value) ==
  IF CallerType(caller) # "Subnet" THEN Err(s, USR_FORBIDDEN, << >>)
  ELSE IF value <= 0 THEN Err(s, USR_ILLEGAL_ARGUMENT, << >>)
  ELSE LET shid == SubnetID_new(s.network_name, caller)
           sub == get_subnet(s, shid) IN
    IF sub = None THEN Err(s, USR_ILLEGAL_ARGUMENT, << >>)
    ELSE Ok(flush_subnet(s, Subnet_add_stake(sub, s, value)), << >>, None)

\* the value is not compared with the stake of the subnet
release_stake_any_value(s, bal, caller, value) ==
  IF CallerType(caller) # "Subnet" THEN Err(s, USR_FORBIDDEN, << >>)
  ELSE IF value <= 0 THEN Err(s, USR_ILLEGAL_ARGUMENT, << >>)
  ELSE LET shid == SubnetID_new(s.network_name, caller)
           sub == get_subnet(s, shid) IN
    IF sub = None THEN Err(s, USR_ILLEGAL_ARGUMENT, << >>)
    ELSE IF bal < value THEN Err(s, USR_ILLEGAL_STATE, << >>)
    ELSE Ok(flush_subnet(s, Subnet_add_stake(sub, s, -value)),
            <<Send(caller, METHOD_SEND, value)>>, None)

\* Actor::release_stake
release_stake(s, bal, caller, value) ==
  IF CallerType(caller) # "Subnet" THEN Err(s, USR_FORBIDDEN, << >>)
  ELSE IF value <= 0 THEN Err(s, USR_ILLEGAL_ARGUMENT, << >>)
  ELSE LET shid == SubnetID_new(s.network_name, caller)
           sub == get_subnet(s, shid) IN
    IF sub = None THEN Err(s, USR_ILLEGAL_ARGUMENT, << >>)
    ELSE IF sub.stake < value THEN Err(s, USR_ILLEGAL_STATE, << >>)
    ELSE IF bal < value THEN Err(s, USR_ILLEGAL_STATE, << >>)
    ELSE Ok(flush_subnet(s, Subnet_add_stake(sub, s, -value)),
            <<Send(caller, METHOD_SEND, value)>>, None)

kill(s, bal, caller) ==
  IF CallerType(caller) # "Subnet" THEN Err(s, USR_FORBIDDEN, << >>)
  ELSE LET shid == SubnetID_new(s.network_name, caller)
           sub == get_subnet(s, shid) IN
    IF sub = None THEN Err(s, USR_ILLEGAL_ARGUMENT, << >>)
    ELSE IF bal < sub.stake THEN Err(s, USR_ILLEGAL_STATE, << >>)
    ELSE IF sub.circ_supply > 0 THEN Err(s, USR_ILLEGAL_STATE, << >>)
    ELSE Ok(rm_subnet(s, shid), <<Send(caller, METHOD_SEND, sub.stake)>>, None)

\* ---------------------------------------------------- top-down messages
StorableMsg(from, to, method, params, value, nonce) ==
  [from |-> from, to |-> to, method |-> method, params |-> params,
   value |-> value, nonce |-> nonce]

new_fund_msg(sub_id, sig_addr, value) ==
  IF SubnetID_parent(sub_id) = SubnetID_default THEN None
  ELSE StorableMsg(new_hierarchical(SubnetID_parent(sub_id), sig_addr),
                   new_hierarchical(sub_id, sig_addr), METHOD_SEND, None, value, 0)

new_release_msg(sub_id, sig_addr, value, nonce) ==
  IF SubnetID_parent(sub_id) = SubnetID_default THEN None
  ELSE StorableMsg(new_hierarchical(sub_id, BURNT_FUNDS_ACTOR_ADDR),
                   new_hierarchical(SubnetID_parent(sub_id), sig_addr),
                   METHOD_SEND, None, value, nonce)

\* the message is stored at key 0 whatever its nonce
store_topdown_msg_at_zero(sub, msg) ==
  [sub EXCEPT !.top_down_msgs = AmtSet(@, 0, msg)]

store_topdown_msg(sub, msg) ==
  [sub EXCEPT !.top_down_msgs = AmtSet(@, msg.nonce, msg)]

\* the supply is lowered without comparing it with the value
release_supply_unchecked(sub, value) ==
  [sub EXCEPT !.circ_supply = @ - value]

release_supply(sub, value) ==
  IF sub.circ_supply < value THEN None
  ELSE [sub EXCEPT !.circ_supply = @ - value]

\* State::commit_topdown_msg: Err is returned as None
commit_topdown_msg(s, msg) ==
  LET next == SubnetID_down(msg.to.subnet, s.network_name) IN
  IF next = SubnetID_default THEN None
  ELSE LET sub == get_subnet(s, next) IN
    IF sub = None THEN None
    ELSE LET m == [msg EXCEPT !.nonce = sub.nonce]
             stored == store_topdown_msg(sub, m) IN
      flush_subnet(s, [stored EXCEPT !.nonce = @ + 1,
                                     !.circ_supply = @ + m.value])

resolve_secp_bls(raw) == PubKey[raw]

resolve_address(addr) ==
  IF addr \in Accounts \cup SubnetActors \cup {SCA_ACTOR_ADDR} THEN addr
  ELSE IF \E a \in Accounts : PubKey[a] = addr
  THEN CHOOSE a \in Accounts : PubKey[a] = addr
  ELSE NoAddress

fund(s, caller, value, dst) ==
  IF CallerType(caller) \notin CALLER_TYPES_SIGNABLE THEN Err(s, USR_FORBIDDEN, << >>)
  ELSE IF value <= 0 THEN Err(s, USR_ILLEGAL_ARGUMENT, << >>)
  ELSE LET f_msg == new_fund_msg(dst, resolve_secp_bls(caller), value) IN
    IF f_msg = None THEN Err(s, USR_ILLEGAL_STATE, << >>)
    ELSE LET r == commit_topdown_msg(s, f_msg) IN
      IF r = None THEN Err(s, USR_ILLEGAL_STATE, << >>)
      ELSE Ok(r, << >>, None)

\* ----------------------------------------------------------- checkpoints
Checkpoint_new(source, epoch) ==
  [source |-> source, epoch |-> epoch, prev_check |-> None,
   children |-> << >>, cross_msgs |-> << >>]

CrossMsgMeta(from, to, msgs_cid, nonce, value) ==
  [from |-> from, to |-> to, msgs_cid |-> msgs_cid, nonce |-> nonce, value |-> value]

CrossMsgs_new == [msgs |-> << >>, metas |-> << >>]

\* the epoch is rounded down to a multiple of the period
checkpoint_epoch_floor(epoch, period) == (epoch \div period) * period

\* the bucket of the window checkpoint that is populated at an epoch
checkpoint_epoch(epoch, period) == ((epoch + period - 1) \div period) * period

get_window_checkpoint(s, epoch) ==
  LET ch_epoch == checkpoint_epoch(epoch, s.check_period) IN
  IF ch_epoch \in DOMAIN s.checkpoints THEN s.checkpoints[ch_epoch]
  ELSE Checkpoint_new(s.network_name, ch_epoch)

flush_checkpoint(s, ch) ==
  [s EXCEPT !.checkpoints =
     [e \in DOMAIN s.checkpoints \cup {ch.epoch} |->
        IF e = ch.epoch THEN ch ELSE s.checkpoints[e]]]

\* index of the meta of a checkpoint for (from, to), 0 when there is none
crossmsg_meta_index(ch, from, to) ==
  LET hits == {i \in 1..Len(ch.cross_msgs) :
                 ch.cross_msgs[i].from = from /\ ch.cross_msgs[i].to = to} IN
  IF hits = {} THEN 0 ELSE CHOOSE i \in hits : \A j \in hits : i <= j

\* CrossMsgs::add_msg
add_msg(cm, msg) == [cm EXCEPT !.msgs = Append(@, msg)]

\* CrossMsgs::add_metas: a meta equal to one already present is skipped
RECURSIVE add_metas(_, _)
add_metas(cm, metas) ==
  IF Len(metas) = 0 THEN cm
  ELSE LET m == Head(metas)
           cm1 == IF \E i \in 1..Len(cm.metas) : cm.metas[i] = m THEN cm
                  ELSE [cm EXCEPT !.metas = Append(@, m)] IN
       add_metas(cm1, Tail(metas))

\* the content behind the msgs_cid of a meta
MetaContent(meta) == meta.msgs_cid.cid

\* State::commit_bottomup_msg: the message joins the meta (network_name, to)
\* of the window checkpoint and the bottom-up nonce advances
commit_bottomup_msg(s, msg, epoch) ==
  LET ch == get_window_checkpoint(s, epoch)
      sto == msg.to.subnet
      idx == crossmsg_meta_index(ch, s.network_name, sto)
      ch1 == IF idx = 0
             THEN [ch EXCEPT !.cross_msgs =
                     Append(@, CrossMsgMeta(s.network_name, sto,
                                 Cid(add_msg(CrossMsgs_new, msg)), 0, msg.value))]
             ELSE [ch EXCEPT !.cross_msgs[idx] =
                     [@ EXCEPT !.msgs_cid = Cid(add_msg(MetaContent(ch.cross_msgs[idx]), msg)),
                               !.value = @ + msg.value]]
  IN [flush_checkpoint(s, ch1) EXCEPT !.nonce = @ + 1]

\* State::send_cross: Err is returned as None
send_cross_st(s, msg, epoch) ==
  IF hc_type(msg) = TopDown
  THEN LET r == commit_topdown_msg(s, msg) IN
       IF r = None THEN None ELSE [tp |-> TopDown, st |-> r]
  ELSE [tp |-> BottomUp,
        st |-> commit_bottomup_msg(s, [msg EXCEPT !.nonce = s.nonce], epoch)]

release(s, epoch, caller, value) ==
  IF CallerType(caller) \notin CALLER_TYPES_SIGNABLE THEN Err(s, USR_FORBIDDEN, << >>)
  ELSE IF value <= 0 THEN Err(s, USR_ILLEGAL_ARGUMENT, << >>)
  ELSE LET burn == <<Send(BURNT_FUNDS_ACTOR_ADDR, METHOD_SEND, value)>>
           r_msg == new_release_msg(s.network_name, resolve_secp_bls(caller),
                                    value, s.nonce) IN
    IF r_msg = None THEN Err(s, USR_ILLEGAL_STATE, burn)
    ELSE Ok(commit_bottomup_msg(s, r_msg, epoch), burn, None)

\* the value of the message is burnt whatever its direction
send_cross_burns_always(s, epoch, caller, destination, msg) ==
  IF CallerType(caller) \notin CALLER_TYPES_SIGNABLE THEN Err(s, USR_FORBIDDEN, << >>)
  ELSE IF destination = SubnetID_default THEN Err(s, USR_ILLEGAL_ARGUMENT, << >>)
  ELSE IF destination = s.network_name THEN Err(s, USR_ILLEGAL_ARGUMENT, << >>)
  ELSE LET m == [msg EXCEPT !.to = new_hierarchical(destination, msg.to),
                            !.from = new_hierarchical(s.network_name,
                                                      resolve_secp_bls(caller))]
           r == send_cross_st(s, m, epoch) IN
    IF r = None THEN Err(s, USR_ILLEGAL_STATE, << >>)
    ELSE Ok(r.st,
            IF m.value > 0
            THEN <<Send(BURNT_FUNDS_ACTOR_ADDR, METHOD_SEND, m.value)>> ELSE << >>,
            None)

\* Actor::send_cross; the value of the message is received with the call
send_cross(s, epoch, caller, destination, msg) ==
  IF CallerType(caller) \notin CALLER_TYPES_SIGNABLE THEN Err(s, USR_FORBIDDEN, << >>)
  ELSE IF destination = SubnetID_default THEN Err(s, USR_ILLEGAL_ARGUMENT, << >>)
  ELSE IF destination = s.network_name THEN Err(s, USR_ILLEGAL_ARGUMENT, << >>)
  ELSE LET m == [msg EXCEPT !.to = new_hierarchical(destination, msg.to),
                            !.from = new_hierarchical(s.network_name,
                                                      resolve_secp_bls(caller))]
           r == send_cross_st(s, m, epoch) IN
    IF r = None THEN Err(s, USR_ILLEGAL_STATE, << >>)
    ELSE Ok(r.st,
            IF r.tp = BottomUp /\ m.value > 0
            THEN <<Send(BURNT_FUNDS_ACTOR_ADDR, METHOD_SEND, m.value)>> ELSE << >>,
            None)

\* ------------------------------------------------- checkpoint commitment
Checkpoint_cid(ch) == Cid(ch)

subnet_actor(sn) == IF Len(sn) = 0 THEN NoAddress ELSE sn[Len(sn)]

\* a meta addressed to this network is recorded under the bottom-up nonce
store_bottomup_msg(s, mm) ==
  [s EXCEPT !.bottomup_msg_meta = AmtSet(@, s.nonce, [mm EXCEPT !.nonce = s.nonce]),
            !.nonce = @ + 1]

\* State::apply_check_msgs: every meta of the commit releases its value from
\* the circulating supply of the committing subnet and adds it to the burn;
\* Err is returned as None
RECURSIVE ApplyMetas(_, _, _, _, _)
ApplyMetas(s, sub, metas, burn, aux) ==
  IF Len(metas) = 0
  THEN [st |-> s, sub |-> sub, burn_value |-> burn, ap_msgs |-> aux]
  ELSE LET mm == Head(metas)
           here == mm.to = s.network_name
           sub1 == release_supply(sub, mm.value) IN
       IF sub1 = None THEN None
       ELSE ApplyMetas(IF here THEN store_bottomup_msg(s, mm) ELSE s, sub1,
                       Tail(metas), burn + mm.value,
                       IF here THEN aux ELSE Append(aux, mm))

apply_check_msgs(s, sub, commit) == ApplyMetas(s, sub, commit.cross_msgs, 0, << >>)

\* State::agg_child_msgmeta: metas going down are aggregated into the meta
\* (network_name, to) of the window, metas going further up are included
RECURSIVE agg_child_msgmeta(_, _, _)
agg_child_msgmeta(s, ch, ap_msgs) ==
  IF Len(ap_msgs) = 0 THEN ch
  ELSE LET mm == Head(ap_msgs)
           idx == crossmsg_meta_index(ch, s.network_name, mm.to)
           ch1 ==
             IF SubnetID_down(mm.to, s.network_name) = SubnetID_default
             THEN [ch EXCEPT !.cross_msgs = Append(@, mm)]
             ELSE IF idx = 0
             THEN [ch EXCEPT !.cross_msgs =
                     Append(@, CrossMsgMeta(s.network_name, mm.to,
                                 Cid(add_metas(CrossMsgs_new, <<mm>>)), 0, mm.value))]
             ELSE [ch EXCEPT !.cross_msgs[idx] =
                     [@ EXCEPT !.msgs_cid = Cid(add_metas(MetaContent(ch.cross_msgs[idx]), <<mm>>)),
                               !.value = @ + mm.value]]
       IN agg_child_msgmeta(s, ch1, Tail(ap_msgs))

\* the Cid is appended without looking for it in the list
add_child_check_no_dedupe(ch, commit) ==
  LET hits == {i \in 1..Len(ch.children) : ch.children[i].source = commit.source}
      cid == Checkpoint_cid(commit) IN
  IF hits = {}
  THEN [ch EXCEPT !.children = Append(@, [source |-> commit.source, checks |-> <<cid>>])]
  ELSE LET i == CHOOSE i \in hits : TRUE IN
    [ch EXCEPT !.children[i].checks = Append(@, cid)]

\* Checkpoint::add_child_check: Err (the Cid is already there) is None
add_child_check(ch, commit) ==
  LET hits == {i \in 1..Len(ch.children) : ch.children[i].source = commit.source}
      cid == Checkpoint_cid(commit) IN
  IF hits = {}
  THEN [ch EXCEPT !.children = Append(@, [source |-> commit.source, checks |-> <<cid>>])]
  ELSE LET i == CHOOSE i \in hits : TRUE IN
    IF \E j \in 1..Len(ch.children[i].checks) : ch.children[i].checks[j] = cid
    THEN None
    ELSE [ch EXCEPT !.children[i].checks = Append(@, cid)]

\* the commit is taken whatever came before it
prev_checkpoint_checks_skipped(sub, commit) == OK

\* the checks of commit_child_check on a subnet that has a previous
\* checkpoint: Err is returned as its exit code
prev_checkpoint_checks(sub, commit) ==
  IF sub.prev_checkpoint = None THEN OK
  ELSE IF sub.prev_checkpoint.epoch > commit.epoch THEN USR_ILLEGAL_ARGUMENT
  ELSE IF commit.prev_check # Checkpoint_cid(sub.prev_checkpoint)
  THEN USR_ILLEGAL_ARGUMENT
  ELSE OK

\* the burn is sent whatever its value
burn_sends_always(burn_value) ==
  <<Send(BURNT_FUNDS_ACTOR_ADDR, METHOD_SEND, burn_value)>>

\* the send that follows the transaction of commit_child_check
burn_sends(burn_value) ==
  IF burn_value > 0
  THEN <<Send(BURNT_FUNDS_ACTOR_ADDR, METHOD_SEND, burn_value)>> ELSE << >>

\* the checkpoint of a subnet is taken whatever its status
commit_child_check_any_status(s, bal, epoch, caller, commit) ==
  IF CallerType(caller) # "Subnet" THEN Err(s, USR_FORBIDDEN, << >>)
  ELSE IF caller # subnet_actor(commit.source) THEN Err(s, USR_ILLEGAL_ARGUMENT, << >>)
  ELSE LET shid == SubnetID_new(s.network_name, caller)
           sub == get_subnet(s, shid) IN
    IF sub = None THEN Err(s, USR_ILLEGAL_ARGUMENT, << >>)
    ELSE IF prev_checkpoint_checks(sub, commit) # OK
    THEN Err(s, prev_checkpoint_checks(sub, commit), << >>)
    ELSE LET ap == apply_check_msgs(s, sub, commit) IN
      IF ap = None THEN Err(s, USR_ILLEGAL_STATE, << >>)
      ELSE LET ch == agg_child_msgmeta(ap.st, get_window_checkpoint(s, epoch), ap.ap_msgs)
               ch1 == add_child_check(ch, commit) IN
        IF ch1 = None THEN Err(s, USR_ILLEGAL_ARGUMENT, << >>)
        ELSE LET s1 == flush_subnet(flush_checkpoint(ap.st, ch1),
                                    [ap.sub EXCEPT !.prev_checkpoint = commit]) IN
          IF bal < SendsValue(burn_sends(ap.burn_value))
          THEN Err(s, SYS_SENDER_STATE_INVALID, burn_sends(ap.burn_value))
          ELSE Ok(s1, burn_sends(ap.burn_value), None)

commit_child_check(s, bal, epoch, caller, commit) ==
  IF CallerType(caller) # "Subnet" THEN Err(s, USR_FORBIDDEN, << >>)
  ELSE IF caller # subnet_actor(commit.source) THEN Err(s, USR_ILLEGAL_ARGUMENT, << >>)
  ELSE LET shid == SubnetID_new(s.network_name, caller)
           sub == get_subnet(s, shid) IN
    IF sub = None THEN Err(s, USR_ILLEGAL_ARGUMENT, << >>)
    ELSE IF sub.status # Active THEN Err(s, USR_ILLEGAL_STATE, << >>)
    ELSE IF prev_checkpoint_checks(sub, commit) # OK
    THEN Err(s, prev_checkpoint_checks(sub, commit), << >>)
    ELSE LET ap == apply_check_msgs(s, sub, commit) IN
      IF ap = None THEN Err(s, USR_ILLEGAL_STATE, << >>)
      ELSE LET ch == agg_child_msgmeta(ap.st, get_window_checkpoint(s, epoch), ap.ap_msgs)
               ch1 == add_child_check(ch, commit) IN
        IF ch1 = None THEN Err(s, USR_ILLEGAL_ARGUMENT, << >>)
        ELSE LET s1 == flush_subnet(flush_checkpoint(ap.st, ch1),
                                    [ap.sub EXCEPT !.prev_checkpoint = commit]) IN
          IF bal < SendsValue(burn_sends(ap.burn_value))
          THEN Err(s, SYS_SENDER_STATE_INVALID, burn_sends(ap.burn_value))
          ELSE Ok(s1, burn_sends(ap.burn_value), None)

\* ----------------------------------------------------- atomic executions
\* the orders in which a HashMap may iterate over a set of keys
Orders(S) ==
  {f \in [1..Cardinality(S) -> S] : \A i, j \in DOMAIN f : i # j => f[i] # f[j]}

\* the execution is created as already successful
AtomicExec_new_as_success(params) ==
  [params |-> params, submitted |-> EmptyAmt, status |-> Success]

AtomicExec_new(params) ==
  [params |-> params, submitted |-> EmptyAmt, status |-> Initialized]

get_atomic_exec(s, cid) ==
  IF cid \in DOMAIN s.atomic_exec_registry THEN s.atomic_exec_registry[cid] ELSE None

set_atomic_exec(s, cid, exec) ==
  [s EXCEPT !.atomic_exec_registry =
     [c \in DOMAIN s.atomic_exec_registry \cup {cid} |->
        IF c = cid THEN exec ELSE s.atomic_exec_registry[c]]]

\* AtomicExecParamsRaw::input_into_ids: Err (unresolvable address) is None
input_into_ids(raw) ==
  IF \E k \in DOMAIN raw.inputs : resolve_address(k.raw) = NoAddress THEN None
  ELSE LET IdOf(k) == new_hierarchical(k.subnet, resolve_address(k.raw))
           keys == {IdOf(k) : k \in DOMAIN raw.inputs} IN
    [msgs |-> raw.msgs,
     inputs |-> [h \in keys |->
        raw.inputs[CHOOSE k \in DOMAIN raw.inputs : IdOf(k) = h]]]

AtomicExecParamsRaw_cid(raw) == Cid(raw)

\* is_common_parent over the keys in iteration order ks
RECURSIVE FoldCommonParent(_, _)
FoldCommonParent(cp, ks) ==
  IF Len(ks) = 0 THEN cp
  ELSE FoldCommonParent(common_parent(cp, Head(ks).subnet).id, Tail(ks))

\* only the first and the last key are looked at
is_common_parent_in_ends(curr, ks) ==
  common_parent(ks[1].subnet, ks[Len(ks)].subnet).id = curr

is_common_parent_in(curr, ks) == FoldCommonParent(ks[1].subnet, ks) = curr

is_common_parent(curr, inputs) ==
  is_common_parent_in(curr, CHOOSE ks \in Orders(DOMAIN inputs) : TRUE)

\* every caller is taken for a party of the execution
is_addr_in_exec_anyone(caller, inputs) == TRUE

is_addr_in_exec(caller, inputs) == \E k \in DOMAIN inputs : k.raw = caller

\* the status of the execution is not looked at
atomic_exec_checks_any_status(exec, caller) ==
  IF ~is_addr_in_exec(caller, exec.params.inputs) THEN USR_ILLEGAL_ARGUMENT
  ELSE OK

\* common checks of a submission or abort: Err is returned as its exit code
atomic_exec_checks(exec, caller) ==
  IF ~is_addr_in_exec(caller, exec.params.inputs) THEN USR_ILLEGAL_ARGUMENT
  ELSE IF exec.status # Initialized THEN USR_ILLEGAL_STATE
  ELSE OK

\* State::propagate_exec_result: one top-down message for each subnet of the
\* inputs, visited in the order ks; Err is returned as None
RECURSIVE Propagate(_, _, _, _, _, _, _)
Propagate(s, cid, exec, output, abort, ks, visited) ==
  IF Len(ks) = 0 THEN s
  ELSE LET k == Head(ks) IN
    IF k.subnet \in visited
    THEN Propagate(s, cid, exec, output, abort, Tail(ks), visited)
    ELSE LET msg == StorableMsg(
                      new_hierarchical(s.network_name, SCA_ACTOR_ADDR),
                      new_hierarchical(k.subnet, exec.params.inputs[k].actor),
                      IF abort THEN METHOD_ABORT ELSE METHOD_UNLOCK,
                      [exec |-> cid, output |-> output], 0, 0)
             s1 == commit_topdown_msg(s, msg) IN
      IF s1 = None THEN None
      ELSE Propagate(s1, cid, exec, output, abort, Tail(ks), visited \cup {k.subnet})

propagate_exec_result(s, cid, exec, output, abort, ks) ==
  Propagate(s, cid, exec, output, abort, ks, {})

\* the registry is not looked up before the execution is stored
init_atomic_exec_overwrite(s, caller, raw) ==
  IF CallerType(caller) \notin CALLER_TYPES_SIGNABLE THEN Err(s, USR_FORBIDDEN, << >>)
  ELSE LET cid == AtomicExecParamsRaw_cid(raw)
           params == input_into_ids(raw) IN
    IF params = None THEN Err(s, USR_ILLEGAL_ARGUMENT, << >>)
    ELSE IF Len(params.msgs) = 0 \/ Cardinality(DOMAIN params.inputs) < 2
    THEN Err(s, USR_ILLEGAL_ARGUMENT, << >>)
    ELSE IF ~is_common_parent(s.network_name, params.inputs)
    THEN Err(s, USR_ILLEGAL_ARGUMENT, << >>)
    ELSE IF \E i \in 1..Len(params.msgs) :
              params.msgs[i].method # params.msgs[1].method
              \/ params.msgs[i].to # params.msgs[1].to
    THEN Err(s, USR_ILLEGAL_ARGUMENT, << >>)
    ELSE Ok(set_atomic_exec(s, cid, AtomicExec_new(params)), << >>, cid)

\* Actor::init_atomic_exec
init_atomic_exec(s, caller, raw) ==
  IF CallerType(caller) \notin CALLER_TYPES_SIGNABLE THEN Err(s, USR_FORBIDDEN, << >>)
  ELSE LET cid == AtomicExecParamsRaw_cid(raw)
           params == input_into_ids(raw) IN
    IF params = None THEN Err(s, USR_ILLEGAL_ARGUMENT, << >>)
    ELSE IF get_atomic_exec(s, cid) # None THEN Err(s, USR_ILLEGAL_ARGUMENT, << >>)
    ELSE IF Len(params.msgs) = 0 \/ Cardinality(DOMAIN params.inputs) < 2
    THEN Err(s, USR_ILLEGAL_ARGUMENT, << >>)
    ELSE IF ~is_common_parent(s.network_name, params.inputs)
    THEN Err(s, USR_ILLEGAL_ARGUMENT, << >>)
    ELSE IF \E i \in 1..Len(params.msgs) :
              params.msgs[i].method # params.msgs[1].method
              \/ params.msgs[i].to # params.msgs[1].to
    THEN Err(s, USR_ILLEGAL_ARGUMENT, << >>)
    ELSE Ok(set_atomic_exec(s, cid, AtomicExec_new(params)), << >>, cid)

\* the abort is refused once an output has been submitted
abort_atomic_exec_before_outputs(s, caller, cid, ks) ==
  IF CallerType(caller) \notin CALLER_TYPES_SIGNABLE THEN Err(s, USR_FORBIDDEN, << >>)
  ELSE LET exec == get_atomic_exec(s, cid) IN
    IF exec = None THEN Err(s, USR_ILLEGAL_ARGUMENT, << >>)
    ELSE IF atomic_exec_checks(exec, caller) # OK
    THEN Err(s, atomic_exec_checks(exec, caller), << >>)
    ELSE IF DOMAIN exec.submitted # {} THEN Err(s, USR_ILLEGAL_STATE, << >>)
    ELSE LET exec1 == [exec EXCEPT !.status = Aborted]
             s1 == propagate_exec_result(s, cid, exec1, None, TRUE, ks) IN
      IF s1 = None THEN Err(s, USR_ILLEGAL_STATE, << >>)
      ELSE Ok(set_atomic_exec(s1, cid, exec1), << >>, exec1.status)

\* the aborted execution is taken out of the registry
abort_atomic_exec_forgets(s, caller, cid, ks) ==
  IF CallerType(caller) \notin CALLER_TYPES_SIGNABLE THEN Err(s, USR_FORBIDDEN, << >>)
  ELSE LET exec == get_atomic_exec(s, cid) IN
    IF exec = None THEN Err(s, USR_ILLEGAL_ARGUMENT, << >>)
    ELSE IF atomic_exec_checks(exec, caller) # OK
    THEN Err(s, atomic_exec_checks(exec, caller), << >>)
    ELSE LET exec1 == [exec EXCEPT !.status = Aborted]
             s1 == propagate_exec_result(s, cid, exec1, None, TRUE, ks) IN
      IF s1 = None THEN Err(s, USR_ILLEGAL_STATE, << >>)
      ELSE Ok([s1 EXCEPT !.atomic_exec_registry =
                 [c \in DOMAIN s1.atomic_exec_registry \ {cid} |->
                    s1.atomic_exec_registry[c]]], << >>, exec1.status)

\* the abort is propagated as if the execution had succeeded
abort_atomic_exec_as_unlock(s, caller, cid, ks) ==
  IF CallerType(caller) \notin CALLER_TYPES_SIGNABLE THEN Err(s, USR_FORBIDDEN, << >>)
  ELSE LET exec == get_atomic_exec(s, cid) IN
    IF exec = None THEN Err(s, USR_ILLEGAL_ARGUMENT, << >>)
    ELSE IF atomic_exec_checks(exec, caller) # OK
    THEN Err(s, atomic_exec_checks(exec, caller), << >>)
    ELSE LET exec1 == [exec EXCEPT !.status = Aborted]
             s1 == propagate_exec_result(s, cid, exec1, None, FALSE, ks) IN
      IF s1 = None THEN Err(s, USR_ILLEGAL_STATE, << >>)
      ELSE Ok(set_atomic_exec(s1, cid, exec1), << >>, exec1.status)

abort_atomic_exec(s, caller, cid, ks) ==
  IF CallerType(caller) \notin CALLER_TYPES_SIGNABLE THEN Err(s, USR_FORBIDDEN, << >>)
  ELSE LET exec == get_atomic_exec(s, cid) IN
    IF exec = None THEN Err(s, USR_ILLEGAL_ARGUMENT, << >>)
    ELSE IF atomic_exec_checks(exec, caller) # OK
    THEN Err(s, atomic_exec_checks(exec, caller), << >>)
    ELSE LET exec1 == [exec EXCEPT !.status = Aborted]
             s1 == propagate_exec_result(s, cid, exec1, None, TRUE, ks) IN
      IF s1 = None THEN Err(s, USR_ILLEGAL_STATE, << >>)
      ELSE Ok(set_atomic_exec(s1, cid, exec1), << >>, exec1.status)

\* an output is taken also from a caller that has submitted one
submit_atomic_exec_resubmit(s, caller, params, ks) ==
  LET exec == get_atomic_exec(s, params.cid) IN
  IF exec = None THEN Err(s, USR_ILLEGAL_ARGUMENT, << >>)
  ELSE IF atomic_exec_checks(exec, caller) # OK
  THEN Err(s, atomic_exec_checks(exec, caller), << >>)
  ELSE IF params.abort
  THEN LET exec1 == [exec EXCEPT !.status = Aborted]
           s1 == propagate_exec_result(s, params.cid, exec1, None, TRUE, ks) IN
       IF s1 = None THEN Err(s, USR_ILLEGAL_STATE, << >>)
       ELSE Ok(set_atomic_exec(s1, params.cid, exec1), << >>, exec1.status)
  ELSE LET out_cid == Cid(params.output)
           conflict == \E p \in DOMAIN exec.submitted : exec.submitted[p] # out_cid
           sub1 == AmtSet(exec.submitted, caller, out_cid)
           done == Cardinality(DOMAIN sub1) = Cardinality(DOMAIN exec.params.inputs)
           exec1 == [exec EXCEPT !.submitted = sub1,
                                 !.status = IF conflict THEN Aborted
                                            ELSE IF done THEN Success ELSE @]
           s1 == IF conflict
                 THEN propagate_exec_result(s, params.cid, exec1, None, TRUE, ks)
                 ELSE IF done
                 THEN propagate_exec_result(s, params.cid, exec1, Some(params.output), FALSE, ks)
                 ELSE s IN
       IF s1 = None THEN Err(s, USR_ILLEGAL_STATE, << >>)
       ELSE Ok(set_atomic_exec(s1, params.cid, exec1), << >>, exec1.status)

\* State::submit_atomic_exec
\* an output that differs from the ones submitted is taken like any other
submit_atomic_exec_no_conflict(s, caller, params, ks) ==
  LET exec == get_atomic_exec(s, params.cid) IN
  IF exec = None THEN Err(s, USR_ILLEGAL_ARGUMENT, << >>)
  ELSE IF atomic_exec_checks(exec, caller) # OK
  THEN Err(s, atomic_exec_checks(exec, caller), << >>)
  ELSE IF params.abort
  THEN LET exec1 == [exec EXCEPT !.status = Aborted]
           s1 == propagate_exec_result(s, params.cid, exec1, None, TRUE, ks) IN
       IF s1 = None THEN Err(s, USR_ILLEGAL_STATE, << >>)
       ELSE Ok(set_atomic_exec(s1, params.cid, exec1), << >>, exec1.status)
  ELSE IF caller \in DOMAIN exec.submitted THEN Err(s, USR_ILLEGAL_ARGUMENT, << >>)
  ELSE LET out_cid == Cid(params.output)
           sub1 == AmtSet(exec.submitted, caller, out_cid)
           done == Cardinality(DOMAIN sub1) = Cardinality(DOMAIN exec.params.inputs)
           exec1 == [exec EXCEPT !.submitted = sub1,
                                 !.status = IF done THEN Success ELSE @]
           s1 == IF done
                 THEN propagate_exec_result(s, params.cid, exec1, Some(params.output), FALSE, ks)
                 ELSE s IN
       IF s1 = None THEN Err(s, USR_ILLEGAL_STATE, << >>)
       ELSE Ok(set_atomic_exec(s1, params.cid, exec1), << >>, exec1.status)

\* a complete set of outputs does not finish the execution
submit_atomic_exec_never_done(s, caller, params, ks) ==
  LET exec == get_atomic_exec(s, params.cid) IN
  IF exec = None THEN Err(s, USR_ILLEGAL_ARGUMENT, << >>)
  ELSE IF atomic_exec_checks(exec, caller) # OK
  THEN Err(s, atomic_exec_checks(exec, caller), << >>)
  ELSE IF params.abort
  THEN LET exec1 == [exec EXCEPT !.status = Aborted]
           s1 == propagate_exec_result(s, params.cid, exec1, None, TRUE, ks) IN
       IF s1 = None THEN Err(s, USR_ILLEGAL_STATE, << >>)
       ELSE Ok(set_atomic_exec(s1, params.cid, exec1), << >>, exec1.status)
  ELSE IF caller \in DOMAIN exec.submitted THEN Err(s, USR_ILLEGAL_ARGUMENT, << >>)
  ELSE LET out_cid == Cid(params.output)
           conflict == \E p \in DOMAIN exec.submitted : exec.submitted[p] # out_cid
           sub1 == AmtSet(exec.submitted, caller, out_cid)
           done == FALSE
           exec1 == [exec EXCEPT !.submitted = sub1,
                                 !.status = IF conflict THEN Aborted
                                            ELSE IF done THEN Success ELSE @]
           s1 == IF conflict
                 THEN propagate_exec_result(s, params.cid, exec1, None, TRUE, ks)
                 ELSE IF done
                 THEN propagate_exec_result(s, params.cid, exec1, Some(params.output), FALSE, ks)
                 ELSE s IN
       IF s1 = None THEN Err(s, USR_ILLEGAL_STATE, << >>)
       ELSE Ok(set_atomic_exec(s1, params.cid, exec1), << >>, exec1.status)

submit_atomic_exec(s, caller, params, ks) ==
  LET exec == get_atomic_exec(s, params.cid) IN
  IF exec = None THEN Err(s, USR_ILLEGAL_ARGUMENT, << >>)
  ELSE IF atomic_exec_checks(exec, caller) # OK
  THEN Err(s, atomic_exec_checks(exec, caller), << >>)
  ELSE IF params.abort
  THEN LET exec1 == [exec EXCEPT !.status = Aborted]
           s1 == propagate_exec_result(s, params.cid, exec1, None, TRUE, ks) IN
       IF s1 = None THEN Err(s, USR_ILLEGAL_STATE, << >>)
       ELSE Ok(set_atomic_exec(s1, params.cid, exec1), << >>, exec1.status)
  ELSE IF caller \in DOMAIN exec.submitted THEN Err(s, USR_ILLEGAL_ARGUMENT, << >>)
  ELSE LET out_cid == Cid(params.output)
           conflict == \E p \in DOMAIN exec.submitted : exec.submitted[p] # out_cid
           sub1 == AmtSet(exec.submitted, caller, out_cid)
           done == Cardinality(DOMAIN sub1) = Cardinality(DOMAIN exec.params.inputs)
           exec1 == [exec EXCEPT !.submitted = sub1,
                                 !.status = IF conflict THEN Aborted
                                            ELSE IF done THEN Success ELSE @]
           s1 == IF conflict
                 THEN propagate_exec_result(s, params.cid, exec1, None, TRUE, ks)
                 ELSE IF done
                 THEN propagate_exec_result(s, params.cid, exec1, Some(params.output), FALSE, ks)
                 ELSE s IN
       IF s1 = None THEN Err(s, USR_ILLEGAL_STATE, << >>)
       ELSE Ok(set_atomic_exec(s1, params.cid, exec1), << >>, exec1.status)

\* ------------------------------------------------- applying cross-messages
\* any nonce is taken as the one applied
bottomup_state_transition_any_nonce(s, msg) ==
  [s EXCEPT !.applied_bottomup_nonce = msg.nonce]

\* only the nonce after the one applied is taken
bottomup_state_transition_next_only(s, msg) ==
  IF s.applied_bottomup_nonce + 1 # msg.nonce THEN None
  ELSE [s EXCEPT !.applied_bottomup_nonce = msg.nonce]

\* State::bottomup_state_transition: Err is returned as None
bottomup_state_transition(s, msg) ==
  LET nonce == IF s.applied_bottomup_nonce + 1 = msg.nonce
               THEN s.applied_bottomup_nonce + 1 ELSE s.applied_bottomup_nonce IN
  IF nonce # msg.nonce THEN None ELSE [s EXCEPT !.applied_bottomup_nonce = nonce]

\* run_cross_msg: bal is the balance the SCA holds when the message is run
run_cross_msg(s, bal, msg, ks) ==
  LET rto == msg.to.raw IN
  IF rto = SCA_ACTOR_ADDR
  THEN IF msg.method = SubmitAtomicExec
       THEN submit_atomic_exec(s, rto, msg.params, ks)
       ELSE Err(s, USR_ILLEGAL_ARGUMENT, << >>)
  ELSE IF bal < msg.value
       THEN Err(s, SYS_SENDER_STATE_INVALID, <<Send(rto, msg.method, msg.value)>>)
       ELSE Ok(s, <<Send(rto, msg.method, msg.value)>>, None)

\* the nonce of a top-down message is not compared with the counter
apply_msg_any_nonce(s, bal, caller, msg, ks) ==
  IF caller # SYSTEM_ACTOR_ADDR THEN Err(s, USR_FORBIDDEN, << >>)
  ELSE LET sto == msg.to.subnet IN
    IF apply_type(msg, s.network_name) = BottomUp
    THEN LET s1 == bottomup_state_transition(s, msg)
             s2 == IF s1 = None THEN None
                   ELSE IF sto # s.network_name THEN commit_topdown_msg(s1, msg)
                   ELSE s1 IN
         IF s2 = None THEN Err(s, USR_ILLEGAL_STATE, << >>)
         ELSE IF sto = s.network_name
         THEN LET r == run_cross_msg(s2, bal, msg, ks) IN
              IF r.code = OK THEN r ELSE Err(s, r.code, r.sends)
         ELSE Ok(s2, << >>, None)
    ELSE LET mint == <<ExternalFunding(msg.value)>>
             s1 == [s EXCEPT !.applied_topdown_nonce = @ + 1]
             s2 == IF sto # s.network_name THEN commit_topdown_msg(s1, msg)
                   ELSE s1 IN
           IF s2 = None THEN Err(s, USR_ILLEGAL_STATE, mint)
           ELSE IF sto = s.network_name
           THEN LET r == run_cross_msg(s2, bal + msg.value, msg, ks) IN
                IF r.code = OK THEN Ok(r.st, mint \o r.sends, r.ret)
                ELSE Err(s, r.code, mint \o r.sends)
           ELSE Ok(s2, mint, None)

\* a top-down message is dispatched in whatever subnet it is applied
apply_msg_runs_anywhere(s, bal, caller, msg, ks) ==
  IF caller # SYSTEM_ACTOR_ADDR THEN Err(s, USR_FORBIDDEN, << >>)
  ELSE LET sto == msg.to.subnet IN
    IF apply_type(msg, s.network_name) = BottomUp
    THEN LET s1 == bottomup_state_transition(s, msg)
             s2 == IF s1 = None THEN None
                   ELSE IF sto # s.network_name THEN commit_topdown_msg(s1, msg)
                   ELSE s1 IN
         IF s2 = None THEN Err(s, USR_ILLEGAL_STATE, << >>)
         ELSE IF sto = s.network_name
         THEN LET r == run_cross_msg(s2, bal, msg, ks) IN
              IF r.code = OK THEN r ELSE Err(s, r.code, r.sends)
         ELSE Ok(s2, << >>, None)
    ELSE LET mint == <<ExternalFunding(msg.value)>> IN
         IF s.applied_topdown_nonce # msg.nonce THEN Err(s, USR_ILLEGAL_STATE, mint)
         ELSE LET s1 == [s EXCEPT !.applied_topdown_nonce = @ + 1]
                  r == run_cross_msg(s1, bal + msg.value, msg, ks) IN
           IF r.code = OK THEN Ok(r.st, mint \o r.sends, r.ret)
           ELSE Err(s, r.code, mint \o r.sends)

apply_msg(s, bal, caller, msg, ks) ==
  IF caller # SYSTEM_ACTOR_ADDR THEN Err(s, USR_FORBIDDEN, << >>)
  ELSE LET sto == msg.to.subnet IN
    IF apply_type(msg, s.network_name) = BottomUp
    THEN LET s1 == bottomup_state_transition(s, msg)
             s2 == IF s1 = None THEN None
                   ELSE IF sto # s.network_name THEN commit_topdown_msg(s1, msg)
                   ELSE s1 IN
         IF s2 = None THEN Err(s, USR_ILLEGAL_STATE, << >>)
         ELSE IF sto = s.network_name
         THEN LET r == run_cross_msg(s2, bal, msg, ks) IN
              IF r.code = OK THEN r ELSE Err(s, r.code, r.sends)
         ELSE Ok(s2, << >>, None)
    ELSE LET mint == <<ExternalFunding(msg.value)>> IN
         IF s.applied_topdown_nonce # msg.nonce THEN Err(s, USR_ILLEGAL_STATE, mint)
         ELSE LET s1 == [s EXCEPT !.applied_topdown_nonce = @ + 1]
                  s2 == IF sto # s.network_name THEN commit_topdown_msg(s1, msg)
                        ELSE s1 IN
           IF s2 = None THEN Err(s, USR_ILLEGAL_STATE, mint)
           ELSE IF sto = s.network_name
           THEN LET r == run_cross_msg(s2, bal + msg.value, msg, ks) IN
                IF r.code = OK THEN Ok(r.st, mint \o r.sends, r.ret)
                ELSE Err(s, r.code, mint \o r.sends)
           ELSE Ok(s2, mint, None)

\* ------------------------------------------------------------ the system
\* the network this SCA coordinates, and the subnets below it
NetworkName == <<"n">>

ChildID(actor) == SubnetID_new(NetworkName, actor)

\* State::new, called by the constructor
State_new(network_name, checkpoint_period) ==
  [network_name |-> network_name,
   total_subnets |-> 0,
   min_stake |-> MIN_SUBNET_COLLATERAL,
   subnets |-> EmptyAmt,
   check_period |-> IF checkpoint_period > DEFAULT_CHECKPOINT_PERIOD
                    THEN checkpoint_period ELSE DEFAULT_CHECKPOINT_PERIOD,
   checkpoints |-> EmptyAmt,
   nonce |-> 0,
   bottomup_msg_meta |-> EmptyAmt,
   applied_bottomup_nonce |-> NoNonce,
   applied_topdown_nonce |-> 0,
   atomic_exec_registry |-> EmptyAmt]

constructor(network_name, checkpoint_period) ==
  Ok(State_new(network_name, checkpoint_period), << >>, None)

Call(method, code) == [method |-> method, code |-> code]

Init ==
  /\ st = constructor(NetworkName, 0).st
  /\ balance = 0
  /\ curr_epoch = 0
  /\ released = [a \in SubnetActors |-> 0]
  /\ applied = [td |-> EmptyAmt, bu |-> EmptyAmt]
  /\ last = Call("Constructor", OK)
  /\ calls = 0
  /\ handle = None
  /\ store = {}
  /\ route = << >>

\* number of child checkpoints held by the window checkpoints
RECURSIVE CountChecks(_, _)
CountChecks(children, n) ==
  IF n = 0 THEN 0 ELSE Len(children[n].checks) + CountChecks(children, n - 1)

TotalChecks(s) ==
  LET es == DOMAIN s.checkpoints
      RECURSIVE Sum(_)
      Sum(E) == IF E = {} THEN 0
                ELSE LET e == CHOOSE e \in E : TRUE IN
                  CountChecks(s.checkpoints[e].children,
                              Len(s.checkpoints[e].children)) + Sum(E \ {e})
  IN Sum(es)

\* the calls the model takes: those that keep the counters within the bounds
Bounded(s) ==
  /\ \A id \in DOMAIN s.subnets :
        s.subnets[id].stake <= MaxStake /\ s.subnets[id].nonce <= MaxNonce
  /\ s.nonce <= MaxNonce
  /\ s.applied_topdown_nonce <= MaxApplied
  /\ s.applied_bottomup_nonce < MaxApplied
  /\ TotalChecks(s) <= MaxChecks
  /\ Cardinality(DOMAIN s.atomic_exec_registry) <= MaxExecs

\* what a call takes from the budget of a run: an atomic execution bounds the
\* submissions and the abort it accepts by itself
Cost(method) ==
  IF method \in {"SubmitAtomicExec", "AbortAtomicExec"} THEN 0 ELSE 1

\* one method call: the state is written and the sends are paid from the
\* balance when the method returns OK.  A call that fails aborts its message:
\* nothing is written and nothing is paid, which leaves every variable as it
\* is; what a failing call returns is stated on the method's operator.
Invoke(method, r, received) ==
  /\ r.code = OK
  /\ Bounded(r.st)
  /\ calls + Cost(method) <= MaxCalls
  /\ calls' = calls + Cost(method)
  /\ st' = r.st
  /\ balance' = balance + received + SendsFunding(r.sends) - SendsValue(r.sends)
  /\ last' = Call(method, r.code)
  /\ UNCHANGED <<handle, store, route>>

Register(caller, value) ==
  LET r == register(st, caller, value) IN
  /\ Invoke("Register", r, value)
  /\ released' = [released EXCEPT ![caller] = 0]
  /\ UNCHANGED <<curr_epoch, applied>>

AddStake(caller, value) ==
  /\ Invoke("AddStake", add_stake(st, caller, value), value)
  /\ UNCHANGED <<curr_epoch, released, applied>>

ReleaseStake(caller, value) ==
  /\ Invoke("ReleaseStake", release_stake(st, balance, caller, value), 0)
  /\ UNCHANGED <<curr_epoch, released, applied>>

Kill(caller) ==
  /\ Invoke("Kill", kill(st, balance, caller), 0)
  /\ UNCHANGED <<curr_epoch, released, applied>>

\* the checkpoints a child may present
CommitEpochs == {e \in 0..MaxEpoch + 1 : e % DEFAULT_CHECKPOINT_PERIOD = 0}

\* this network, its parent, its registered children and a subnet below it
\* that is not registered
MetaTargets(source) ==
  ({NetworkName, ROOTNET_ID, ChildID("s3")} \cup {ChildID(a) : a \in SubnetActors})
    \ {source}

ChildMetas(source) ==
  {CrossMsgMeta(source, to, Cid("msgs"), 0, v) :
     to \in MetaTargets(source), v \in Values}

ChildCheckpoints(s, caller) ==
  LET source == ChildID(caller)
      sub == get_subnet(s, source)
      prevs == {None} \cup (IF sub # None /\ sub.prev_checkpoint # None
                            THEN {Checkpoint_cid(sub.prev_checkpoint)} ELSE {}) IN
  {[source |-> source, epoch |-> e, prev_check |-> p, children |-> << >>,
    cross_msgs |-> ms] :
     e \in CommitEpochs, p \in prevs,
     ms \in {<< >>} \cup {<<m>> : m \in ChildMetas(source)}}

CommitChildCheckpoint(caller, commit) ==
  LET r == commit_child_check(st, balance, curr_epoch, caller, commit) IN
  /\ Invoke("CommitChildCheckpoint", r, 0)
  /\ released' = [released EXCEPT ![caller] = @ + SendsValue(r.sends)]
  /\ UNCHANGED <<curr_epoch, applied>>

Fund(caller, value, dst) ==
  /\ Invoke("Fund", fund(st, caller, value, dst), value)
  /\ UNCHANGED <<curr_epoch, released, applied>>

Release(caller, value) ==
  /\ Invoke("Release", release(st, curr_epoch, caller, value), value)
  /\ UNCHANGED <<curr_epoch, released, applied>>

SendCross(caller, destination, msg) ==
  /\ Invoke("SendCross", send_cross(st, curr_epoch, caller, destination, msg), msg.value)
  /\ UNCHANGED <<curr_epoch, released, applied>>

\* the cross-messages the consensus may hand to ApplyMessage
Outputs == {"o1", "o2"}

SubmitExecParams(cid, abort, output) == [cid |-> cid, abort |-> abort, output |-> output]

LockedStateInfo(cid, actor) == [cid |-> cid, actor |-> actor]

\* an execution over two subnets with three inputs, and one whose inputs all
\* live in the same child subnet
ExecInputs ==
  LET k1 == new_hierarchical(ChildID("s1"), PubKey["a"])
      k2 == new_hierarchical(ChildID("s2"), PubKey["b"])
      k3 == new_hierarchical(ChildID("s1"), PubKey["c"]) IN
  [k \in {k1, k2, k3} |->
     LockedStateInfo(Cid("locked"),
                     IF k = k1 THEN "l1" ELSE IF k = k2 THEN "l2" ELSE "l3")]

ExecMsgs == <<StorableMsg(new_hierarchical(NetworkName, "l"), "l", METHOD_SEND, None, 0, 0)>>

ExecParamsRaw ==
  {[msgs |-> ExecMsgs, inputs |-> ExecInputs],
   [msgs |-> ExecMsgs,
    inputs |-> [k \in {k \in DOMAIN ExecInputs : k.subnet = ChildID("s1")} |->
                  ExecInputs[k]]]}

ExecCids == {AtomicExecParamsRaw_cid(raw) : raw \in ExecParamsRaw}

\* the Cid of the execution over the two subnets
ExecCid == AtomicExecParamsRaw_cid([msgs |-> ExecMsgs, inputs |-> ExecInputs])

Reverse(seq) == [i \in 1..Len(seq) |-> seq[Len(seq) + 1 - i]]

\* the iteration orders tried for the inputs of an execution: one order and
\* its reverse, so that each of two inputs of a subnet comes first once
ExecOrders(s, cid) ==
  IF get_atomic_exec(s, cid) = None THEN {<< >>}
  ELSE LET o == CHOOSE o \in Orders(DOMAIN get_atomic_exec(s, cid).params.inputs) : TRUE
       IN {o, Reverse(o)}

\* the participants as they sign their cross-messages
Participants ==
  {new_hierarchical(k.subnet, resolve_address(k.raw)) : k \in DOMAIN ExecInputs}

SubmitParams ==
  {SubmitExecParams(cid, abort, output) :
     cid \in ExecCids, abort \in BOOLEAN, output \in Outputs}

CrossNetMsgs ==
  {StorableMsg(new_hierarchical(f, PubKey["a"]), new_hierarchical(t, "a"),
               METHOD_SEND, None, v, n) :
     f \in {ROOTNET_ID, ChildID("s1")}, t \in {NetworkName, ChildID("s2")},
     v \in Values, n \in 0..MaxApplied}
  \cup
  {StorableMsg(f, new_hierarchical(NetworkName, SCA_ACTOR_ADDR),
               SubmitAtomicExec, p, 0, n) :
     f \in Participants, n \in 0..MaxApplied,
     p \in {q \in SubmitParams : q.output = "o1" /\ ~q.abort
                                 /\ get_atomic_exec(st, q.cid) # None}}

ApplyMessage(msg, ks) ==
  LET r == apply_msg(st, balance, SYSTEM_ACTOR_ADDR, msg, ks)
      dir == IF apply_type(msg, st.network_name) = BottomUp THEN "bu" ELSE "td"
      seen == IF msg.nonce \in DOMAIN applied[dir] THEN applied[dir][msg.nonce] ELSE 0 IN
  /\ Invoke("ApplyMessage", r, 0)
  /\ applied' = [applied EXCEPT ![dir] = AmtSet(@, msg.nonce, Min2(seen + 1, 2))]
  /\ UNCHANGED <<curr_epoch, released>>

InitAtomicExec(caller, raw) ==
  /\ Invoke("InitAtomicExec", init_atomic_exec(st, caller, raw), 0)
  /\ UNCHANGED <<curr_epoch, released, applied>>

AbortAtomicExec(caller, cid, ks) ==
  /\ Invoke("AbortAtomicExec", abort_atomic_exec(st, caller, cid, ks), 0)
  /\ UNCHANGED <<curr_epoch, released, applied>>

\* the host moves on to the next epoch
AdvanceEpoch ==
  /\ curr_epoch < MaxEpoch /\ calls < MaxCalls
  /\ curr_epoch' = curr_epoch + 1
  /\ calls' = calls + 1
  /\ UNCHANGED <<st, balance, released, applied, last, handle, store, route>>

\* the test harness hands a submission of a caller straight to the SCA
SubmitAtomicExecCall(caller, params, ks) ==
  /\ Invoke("SubmitAtomicExec", submit_atomic_exec(st, caller, params, ks), 0)
  /\ UNCHANGED <<curr_epoch, released, applied>>

\* accounts that fund, release and send cross-messages
Senders == {"a"}

SendCrossMsgs == {StorableMsg(None, "b", METHOD_SEND, None, v, 0) : v \in Values}

Next ==
  \/ \E caller \in SubnetActors, value \in 1..MaxStake : Register(caller, value)
  \/ \E caller \in SubnetActors, value \in Values : AddStake(caller, value)
  \/ \E caller \in SubnetActors, value \in Values : ReleaseStake(caller, value)
  \/ \E caller \in SubnetActors : Kill(caller)
  \/ \E caller \in SubnetActors :
       \E commit \in ChildCheckpoints(st, caller) : CommitChildCheckpoint(caller, commit)
  \/ \E caller \in Senders, value \in Values, a \in SubnetActors :
       Fund(caller, value, ChildID(a))
  \/ \E caller \in Senders, value \in Values : Release(caller, value)
  \/ \E caller \in Senders, msg \in SendCrossMsgs :
       \E destination \in {ROOTNET_ID, NetworkName} \cup {ChildID(a) : a \in SubnetActors} :
         SendCross(caller, destination, msg)
  \/ \E msg \in CrossNetMsgs :
       \E ks \in (IF msg.method = SubmitAtomicExec
                  THEN ExecOrders(st, msg.params.cid) ELSE {<< >>}) :
         ApplyMessage(msg, ks)
  \/ \E caller \in Senders, raw \in ExecParamsRaw : InitAtomicExec(caller, raw)
  \/ \E caller \in Accounts, cid \in ExecCids :
       \E ks \in ExecOrders(st, cid) : AbortAtomicExec(caller, cid, ks)
  \/ AdvanceEpoch

Spec == Init /\ [][Next]_vars

\* the atomic-execution workload, with the submissions the harness hands in
NextHarness ==
  \/ \E caller \in SubnetActors, value \in 1..MaxStake : Register(caller, value)
  \/ \E caller \in SubnetActors : Kill(caller)
  \/ \E msg \in CrossNetMsgs :
       \E ks \in (IF msg.method = SubmitAtomicExec
                  THEN ExecOrders(st, msg.params.cid) ELSE {<< >>}) :
         ApplyMessage(msg, ks)
  \/ \E caller \in Senders, raw \in ExecParamsRaw : InitAtomicExec(caller, raw)
  \/ \E caller \in Accounts, cid \in ExecCids :
       \E ks \in ExecOrders(st, cid) : AbortAtomicExec(caller, cid, ks)
  \/ \E caller \in Accounts \cup {SCA_ACTOR_ADDR}, params \in SubmitParams :
       \E ks \in ExecOrders(st, params.cid) : SubmitAtomicExecCall(caller, params, ks)

SpecHarness == Init /\ [][NextHarness]_vars

\* the checkpoint workload: it starts with both subnets registered with the
\* minimum collateral, each of them funded with one unit or not, at any epoch
CheckpointSetup(funded) ==
  LET Funded(s, a) == IF a \in funded THEN fund(s, "a", 1, ChildID(a)).st ELSE s
      s0 == constructor(NetworkName, 0).st
      s1 == register(s0, "s1", MIN_SUBNET_COLLATERAL).st
      s2 == register(s1, "s2", MIN_SUBNET_COLLATERAL).st
  IN Funded(Funded(s2, "s1"), "s2")

InitCheckpoints ==
  /\ \E funded \in SUBSET SubnetActors :
       /\ st = CheckpointSetup(funded)
       /\ balance = 2 * MIN_SUBNET_COLLATERAL + Cardinality(funded)
  /\ curr_epoch \in 0..MaxEpoch
  /\ released = [a \in SubnetActors |-> 0]
  /\ applied = [td |-> EmptyAmt, bu |-> EmptyAmt]
  /\ last = Call("Register", OK)
  /\ calls = 0
  /\ handle = None
  /\ store = {}
  /\ route = << >>

NextCheckpoints ==
  \/ \E caller \in SubnetActors, value \in 1..MaxStake : Register(caller, value)
  \/ \E caller \in SubnetActors, value \in Values : ReleaseStake(caller, value)
  \/ \E caller \in SubnetActors : Kill(caller)
  \/ \E caller \in SubnetActors :
       \E commit \in ChildCheckpoints(st, caller) : CommitChildCheckpoint(caller, commit)
  \/ AdvanceEpoch

SpecCheckpoints == InitCheckpoints /\ [][NextCheckpoints]_vars

\* ------------------------------------------------ the SCA of any subnet
\* the subnets of the hierarchy down to MaxDepth below the root
SubnetIDs == UNION {[1..n -> SubnetActors] : n \in 0..MaxDepth}

\* the cross-messages between any two subnets
RoutingMsgs ==
  {StorableMsg(new_hierarchical(f, PubKey["a"]), new_hierarchical(t, "a"),
               METHOD_SEND, None, v, n) :
     f \in SubnetIDs, t \in SubnetIDs, v \in Values, n \in 0..MaxApplied}

\* the SCA is constructed for any subnet of the hierarchy, and may hold funds
InitRouting ==
  /\ \E curr \in SubnetIDs : st = constructor(curr, 0).st
  /\ balance \in {0, MaxValue}
  /\ curr_epoch = 0
  /\ released = [a \in SubnetActors |-> 0]
  /\ applied = [td |-> EmptyAmt, bu |-> EmptyAmt]
  /\ last = Call("Constructor", OK)
  /\ calls = 0
  /\ handle = None
  /\ store = {}
  /\ route = << >>

NextRouting ==
  \/ \E caller \in SubnetActors :
       calls < MaxRouted /\ Register(caller, MIN_SUBNET_COLLATERAL)
  \/ \E caller \in Senders, msg \in SendCrossMsgs, destination \in SubnetIDs :
       calls < MaxRouted /\ SendCross(caller, destination, msg)
  \/ \E msg \in RoutingMsgs : calls < MaxRouted /\ ApplyMessage(msg, << >>)

SpecRouting == InitRouting /\ [][NextRouting]_vars

\* ------------------------------------------------ typed content handles
\* the types a TCid is declared with: a CBOR value, a HAMT, an AMT
TcidTypes == {"TLink", "THamt", "TAmt"}

\* the keys of a HAMT in the order of their hashes, the indices of an AMT in
\* their order, the one field of the record
TcidKeys(T) ==
  IF T = "THamt" THEN <<"spam", "eggs">>
  ELSE IF T = "TAmt" THEN <<0, 1>> ELSE <<"my_field">>

\* the values of each type: a record with one field, maps and arrays of Values
TcidValues(T) ==
  IF T = "TLink" THEN {[my_field |-> n] : n \in 0..MaxValue}
  ELSE UNION {[D -> Values] :
                D \in SUBSET {TcidKeys(T)[i] : i \in DOMAIN TcidKeys(T)}}

\* the block a value is written as: a record as the tuple of its fields, a map
\* as its entries in the order of the keys, an array as a bitmap of the
\* indices set and the values at them
Cbor(T, value) ==
  LET set == SelectSeq(TcidKeys(T), LAMBDA k : k \in DOMAIN value) IN
  IF T = "TLink" THEN <<value.my_field>>
  ELSE IF T = "THamt" THEN [i \in 1..Len(set) |-> <<set[i], value[set[i]]>>]
  ELSE [bmap |-> [i \in DOMAIN TcidKeys(T) |-> TcidKeys(T)[i] \in DOMAIN value],
        values |-> [i \in 1..Len(set) |-> value[set[i]]]]

\* the value a block is read as
FromCbor(T, block) ==
  IF T = "TLink" THEN [my_field |-> block[1]]
  ELSE IF T = "THamt"
  THEN [k \in {block[i][1] : i \in DOMAIN block} |->
          block[CHOOSE i \in DOMAIN block : block[i][1] = k][2]]
  ELSE LET set == SelectSeq(TcidKeys(T), LAMBDA k :
                    \E i \in DOMAIN block.bmap : TcidKeys(T)[i] = k /\ block.bmap[i]) IN
       [k \in {set[i] : i \in DOMAIN set} |->
          block.values[CHOOSE i \in DOMAIN set : set[i] = k]]

\* the store keeps a block under the Cid of its content
put_cbor(s, block) == [cid |-> Cid(block), store |-> s \cup {block}]

get_cbor(s, cid) ==
  IF \E block \in s : Cid(block) = cid
  THEN [found |-> TRUE, block |-> CHOOSE block \in s : Cid(block) = cid]
  ELSE [found |-> FALSE]

\* result of an operation on a handle: the handle and the store after it
TcidResult(ok, h, s, ret) == [ok |-> ok, handle |-> h, store |-> s, ret |-> ret]

\* new_cbor stores the value given, new_hamt and new_amt an empty collection
TCid_new(T, s, value) ==
  LET put == put_cbor(s, Cbor(T, IF T = "TLink" THEN value ELSE << >>)) IN
  TcidResult(TRUE, [cid |-> put.cid, type |-> T], put.store, None)

\* get of a CBOR value, load of a HAMT or an AMT
TCid_load(h, s) ==
  LET got == get_cbor(s, h.cid) IN
  IF got.found THEN TcidResult(TRUE, h, s, FromCbor(h.type, got.block))
  ELSE TcidResult(FALSE, h, s, None)

\* the store is written and the Cid is left as it was
TCid_flush_keeps_cid(h, s, value) ==
  LET put == put_cbor(s, Cbor(h.type, value)) IN
  TcidResult(TRUE, h, put.store, value)

\* put of a CBOR value, flush of a HAMT or an AMT
TCid_flush(h, s, value) ==
  LET put == put_cbor(s, Cbor(h.type, value)) IN
  TcidResult(TRUE, [h EXCEPT !.cid = put.cid], put.store, value)

\* the closures handed to modify and update: each changes the value in memory
\* and then returns Ok or an error
Closures(T) ==
  IF T = "TLink"
  THEN {[op |-> "set", key |-> "my_field", value |-> n, fails |-> b] :
          n \in 0..MaxValue, b \in BOOLEAN}
  ELSE LET keys == {TcidKeys(T)[i] : i \in DOMAIN TcidKeys(T)} IN
       {[op |-> "set", key |-> k, value |-> v, fails |-> b] :
          k \in keys, v \in Values, b \in BOOLEAN}
       \cup {[op |-> "delete", key |-> k, value |-> 0, fails |-> b] :
          k \in keys, b \in BOOLEAN}

\* f(&mut value): the value as f leaves it, and what f returns
call_f(f, value) ==
  [value |-> IF f.op = "set"
             THEN [k \in DOMAIN value \cup {f.key} |->
                     IF k = f.key THEN f.value ELSE value[k]]
             ELSE [k \in DOMAIN value \ {f.key} |-> value[k]],
   ok |-> ~f.fails,
   ret |-> f.op]

\* the value is flushed before the result of f is looked at
TCid_modify_flush_first(h, s, f) ==
  LET loaded == TCid_load(h, s) IN
  IF ~loaded.ok THEN TcidResult(FALSE, h, s, None)
  ELSE LET called == call_f(f, loaded.ret)
           flushed == TCid_flush(h, s, called.value) IN
       IF ~called.ok THEN TcidResult(FALSE, flushed.handle, flushed.store, None)
       ELSE TcidResult(TRUE, flushed.handle, flushed.store, called.ret)

TCid_modify(h, s, f) ==
  LET loaded == TCid_load(h, s) IN
  IF ~loaded.ok THEN TcidResult(FALSE, h, s, None)
  ELSE LET called == call_f(f, loaded.ret) IN
       IF ~called.ok THEN TcidResult(FALSE, h, s, None)
       ELSE LET flushed == TCid_flush(h, s, called.value) IN
            TcidResult(TRUE, flushed.handle, flushed.store, called.ret)

TCid_update(h, s, f) ==
  LET r == TCid_modify(h, s, f) IN [r EXCEPT !.ret = None]

\* a call on the handle returns: an error is seen by the caller
TcidCall(method, r) ==
  /\ calls < MaxCalls
  /\ calls' = calls + 1
  /\ handle' = r.handle
  /\ store' = r.store
  /\ last' = Call(method, IF r.ok THEN OK ELSE "Err")
  /\ UNCHANGED <<st, balance, curr_epoch, released, applied, route>>

\* a handle of any type is made in an empty store
InitTcid ==
  /\ st = constructor(NetworkName, 0).st
  /\ balance = 0
  /\ curr_epoch = 0
  /\ released = [a \in SubnetActors |-> 0]
  /\ applied = [td |-> EmptyAmt, bu |-> EmptyAmt]
  /\ last = Call("New", OK)
  /\ calls = 0
  /\ \E T \in TcidTypes :
       \E value \in TcidValues(T) :
         LET r == TCid_new(T, {}, value) IN handle = r.handle /\ store = r.store
  /\ route = << >>

NextTcid ==
  \/ \E value \in TcidValues(handle.type) :
       TcidCall("Flush", TCid_flush(handle, store, value))
  \/ \E f \in Closures(handle.type) :
       TcidCall("Modify", TCid_modify(handle, store, f))
  \/ \E f \in Closures(handle.type) :
       TcidCall("Update", TCid_update(handle, store, f))

SpecTcid == InitTcid /\ [][NextTcid]_vars

\* ------------------------------------- the SCA of a subnet with children
\* the collateral and the funds of both children
RelayBalance == 2 * MIN_SUBNET_COLLATERAL + 2 * MaxValue

\* the SCA of subnet curr of a hierarchy in which every subnet has registered
\* with the minimum collateral and has been funded once with MaxValue: both
\* children are registered and funded, and below the root the fund message
\* that came from the parent has been applied, which leaves
\* applied_topdown_nonce at 1 and sends the funds on to the account
RelaySetup ==
  [curr \in SubnetIDs |->
     LET s0 == constructor(curr, 0).st
         s1 == register(s0, "s1", MIN_SUBNET_COLLATERAL).st
         s2 == register(s1, "s2", MIN_SUBNET_COLLATERAL).st
         s3 == fund(s2, "a", MaxValue, SubnetID_new(curr, "s1")).st
         s4 == fund(s3, "a", MaxValue, SubnetID_new(curr, "s2")).st
     IN IF curr = ROOTNET_ID THEN s4 ELSE [s4 EXCEPT !.applied_topdown_nonce = 1]]

InitRelay ==
  /\ \E curr \in SubnetIDs : st = RelaySetup[curr]
  /\ balance = RelayBalance
  /\ curr_epoch = 0
  /\ released = [a \in SubnetActors |-> 0]
  /\ applied = [td |-> EmptyAmt, bu |-> EmptyAmt]
  /\ last = Call("Fund", OK)
  /\ calls = 0
  /\ handle = None
  /\ store = {}
  /\ route = << >>

\* an account of the subnet sends a cross-message, or the system actor
\* applies one of value MaxValue between two of the subnets that are at most
\* two levels below this one
NextApply ==
  \/ \E caller \in Senders, msg \in SendCrossMsgs, destination \in SubnetIDs :
       calls < MaxRouted /\ SendCross(caller, destination, msg)
  \/ LET curr == st.network_name
         Near == {sn \in SubnetIDs :
                    /\ Len(sn) \in Len(curr)..Len(curr) + 2
                    /\ SubSeq(sn, 1, Len(curr)) = curr} IN
     \E f \in Near, t \in Near, n \in 0..MaxApplied :
       /\ calls < MaxRouted
       /\ ApplyMessage(StorableMsg(new_hierarchical(f, PubKey["a"]),
                                   new_hierarchical(t, "a"),
                                   METHOD_SEND, None, MaxValue, n), << >>)

SpecApply == InitRelay /\ [][NextApply]_vars


\* ----------------------------------- a cross-message relayed hop by hop
\* an account of subnet A sends a cross-message; the checkpoint of a subnet
\* that holds its meta is committed to the SCA of the parent; the SCA that
\* received the meta of a message for itself or for a subnet below applies
\* the message; the SCA of a child applies the message found in the queue its
\* parent keeps for it. A hop of route records the subnet, what its SCA did
\* (up: meta in the window checkpoint for the parent; turn: meta received
\* from a child, message to be applied here; down: message in the queue of a
\* child; run: message dispatched) and the message as it left
NextRelay ==
  \/ /\ route = << >>
     /\ \E caller \in Senders, msg \in SendCrossMsgs, destination \in SubnetIDs :
          LET r == send_cross(st, curr_epoch, caller, destination, msg)
              down == r.st.subnets # st.subnets
              sub == get_subnet(r.st, SubnetID_down(destination, st.network_name))
              metas == get_window_checkpoint(r.st, curr_epoch).cross_msgs
              sent == MetaContent(metas[Len(metas)]).msgs IN
          /\ r.code = OK
          /\ st' = r.st
          /\ balance' = balance + msg.value - SendsValue(r.sends)
          /\ last' = Call("SendCross", r.code)
          /\ route' = <<[subnet |-> st.network_name,
                         dir |-> IF down THEN "down" ELSE "up",
                         msg |-> IF down THEN sub.top_down_msgs[sub.nonce - 1]
                                 ELSE sent[Len(sent)]]>>
     /\ calls' = calls + 1
     /\ UNCHANGED <<curr_epoch, released, applied, handle, store>>
  \/ /\ route # << >>
     /\ route[Len(route)].dir = "up"
     /\ LET hop == route[Len(route)]
            parent == SubnetID_parent(hop.subnet)
            to == hop.msg.to.subnet
            r == commit_child_check(RelaySetup[parent], RelayBalance, curr_epoch,
                                    subnet_actor(hop.subnet),
                                    get_window_checkpoint(st, curr_epoch)) IN
        /\ r.code = OK
        /\ st' = r.st
        /\ balance' = RelayBalance - SendsValue(r.sends)
        /\ last' = Call("CommitChildCheckpoint", r.code)
        /\ route' = Append(route,
                           [hop EXCEPT !.subnet = parent,
                                       !.dir = IF to = parent
                                                  \/ SubnetID_down(to, parent) # SubnetID_default
                                               THEN "turn" ELSE "up"])
     /\ calls' = calls + 1
     /\ UNCHANGED <<curr_epoch, released, applied, handle, store>>
  \/ /\ route # << >>
     /\ route[Len(route)].dir \in {"turn", "down"}
     /\ LET hop == route[Len(route)]
            to == hop.msg.to.subnet
            curr == IF hop.dir = "turn" THEN hop.subnet
                    ELSE SubnetID_down(to, hop.subnet)
            bal == IF hop.dir = "turn" THEN balance ELSE RelayBalance
            r == apply_msg(IF hop.dir = "turn" THEN st ELSE RelaySetup[curr], bal,
                           SYSTEM_ACTOR_ADDR, hop.msg, << >>)
            sub == get_subnet(r.st, SubnetID_down(to, curr)) IN
        /\ r.code = OK
        /\ st' = r.st
        /\ balance' = bal + SendsFunding(r.sends) - SendsValue(r.sends)
        /\ last' = Call("ApplyMessage", r.code)
        /\ route' = Append(route,
                           [subnet |-> curr,
                            dir |-> IF to = curr THEN "run" ELSE "down",
                            msg |-> IF to = curr THEN hop.msg
                                    ELSE sub.top_down_msgs[sub.nonce - 1]])
     /\ calls' = calls + 1
     /\ UNCHANGED <<curr_epoch, released, applied, handle, store>>

\* a message is on its way and not yet dispatched
Relaying == route # << >> /\ route[Len(route)].dir # "run"

\* the hosts of the subnets go on relaying: weak fairness of the relay,
\* WF_vars(Relaying /\ NextRelay), written out with Relaying as what enables it
SpecRelay ==
  /\ InitRelay
  /\ [][NextRelay]_vars
  /\ ([]<>(~Relaying) \/ []<><<Relaying /\ NextRelay>>_vars)

\* ================================================================ claims
\* C1: every registered subnet whose stake is at least min_stake is Active,
\* also after release_stake made it Inactive and add_stake raised the stake
\* back to min_stake
C1_StakedIsActive ==
  \A id \in DOMAIN st.subnets :
    st.subnets[id].stake >= st.min_stake => st.subnets[id].status = Active

\* C2: every registered subnet whose stake is below min_stake is Inactive; a
\* release_stake that leaves the stake below min_stake sets Inactive, one that
\* leaves it at min_stake or above leaves an Active subnet Active
C2_BelowMinIsInactive ==
  /\ \A id \in DOMAIN st.subnets :
       st.subnets[id].stake < st.min_stake => st.subnets[id].status = Inactive
  /\ \A caller \in SubnetActors, value \in Values :
       LET r == release_stake(st, balance, caller, value)
           id == ChildID(caller) IN
       r.code = OK =>
         /\ r.st.subnets[id].stake = st.subnets[id].stake - value
         /\ r.st.subnets[id].stake < st.min_stake =>
              r.st.subnets[id].status = Inactive
         /\ (r.st.subnets[id].stake >= st.min_stake
             /\ st.subnets[id].status = Active) =>
              r.st.subnets[id].status = Active

\* release_stake has just taken the only registered subnet below min_stake
C2_Witness ==
  /\ last = Call("ReleaseStake", OK)
  /\ st.total_subnets = 1
  /\ \A id \in DOMAIN st.subnets :
       /\ 0 < st.subnets[id].stake
       /\ st.subnets[id].stake < st.min_stake
       /\ st.subnets[id].status = Inactive

\* C3: the result messages of an atomic execution are queued only by the call
\* that finalizes it; that call commits exactly one top-down message into the
\* queue of each distinct subnet of params.inputs, unlock with the agreed
\* output on Success, abort without payload on Aborted; no execution has an
\* unlock in one queue and an abort in another
C3_ResultsAtFinalization ==
  [][\A cid \in DOMAIN st'.atomic_exec_registry :
       LET exec == st'.atomic_exec_registry[cid]
           old == IF cid \in DOMAIN st.atomic_exec_registry
                  THEN st.atomic_exec_registry[cid].status ELSE Initialized
           subs == {k.subnet : k \in DOMAIN exec.params.inputs}
           IsResult(m) ==
             /\ m.from = new_hierarchical(st.network_name, SCA_ACTOR_ADDR)
             /\ m.method \in {METHOD_ABORT, METHOD_UNLOCK}
             /\ m.params.exec = cid
           Results(s, sn) ==
             IF sn \in DOMAIN s.subnets
             THEN {k \in DOMAIN s.subnets[sn].top_down_msgs :
                     IsResult(s.subnets[sn].top_down_msgs[k])}
             ELSE {}
           Msgs(sn) == {st'.subnets[sn].top_down_msgs[k] : k \in Results(st', sn)}
       IN
       /\ IF old = Initialized /\ exec.status # Initialized
          THEN /\ \A sn \in subs :
                    /\ sn \in DOMAIN st'.subnets
                    /\ Results(st, sn) = {}
                    /\ Cardinality(Results(st', sn)) = 1
                    /\ \A m \in Msgs(sn) :
                         /\ m.to.subnet = sn
                         /\ \E k \in DOMAIN exec.params.inputs :
                              k.subnet = sn /\ m.to.raw = exec.params.inputs[k].actor
                         /\ IF exec.status = Success
                            THEN /\ m.method = METHOD_UNLOCK
                                 /\ m.params.output # None
                                 /\ Range(exec.submitted) = {Cid(m.params.output.some)}
                            ELSE /\ m.method = METHOD_ABORT
                                 /\ m.params.output = None
               /\ \A sn \in DOMAIN st'.subnets \ subs : Results(st', sn) = {}
          ELSE \A sn \in DOMAIN st'.subnets : Results(st', sn) \subseteq Results(st, sn)
       /\ exec.status = Initialized =>
            \A sn \in DOMAIN st'.subnets : Results(st', sn) = {}
       /\ \A sn1, sn2 \in DOMAIN st'.subnets :
            \A m1 \in Msgs(sn1), m2 \in Msgs(sn2) : m1.method = m2.method
    ]_vars

C3_Witness ==
  /\ last = Call("SubmitAtomicExec", OK)
  /\ \E cid \in DOMAIN st.atomic_exec_registry :
       /\ st.atomic_exec_registry[cid].status = Success
       /\ \A k \in DOMAIN st.atomic_exec_registry[cid].params.inputs :
            /\ k.subnet \in DOMAIN st.subnets
            /\ \E n \in DOMAIN st.subnets[k.subnet].top_down_msgs :
                 LET m == st.subnets[k.subnet].top_down_msgs[n] IN
                 /\ m.method = METHOD_UNLOCK
                 /\ m.from.raw = SCA_ACTOR_ADDR
                 /\ m.params.exec = cid

\* C4: Success and Aborted are terminal: the status of an execution changes
\* only from Initialized to Success or to Aborted, and once it is Success or
\* Aborted every submission (with or without abort, handed in directly or
\* through apply_msg) and every abort_atomic_exec fails, a participant's
\* submission with USR_ILLEGAL_STATE, and the execution stays as it is
C4_TerminalStatus ==
  /\ [](\A cid \in DOMAIN st.atomic_exec_registry :
          LET exec == st.atomic_exec_registry[cid] IN
          exec.status \in {Success, Aborted} =>
            /\ \A caller \in Accounts \cup {SCA_ACTOR_ADDR}, params \in SubmitParams :
                 params.cid = cid =>
                   \A ks \in ExecOrders(st, cid) :
                     LET r == submit_atomic_exec(st, caller, params, ks) IN
                     /\ r.code # OK
                     /\ r.st = st
                     /\ is_addr_in_exec(caller, exec.params.inputs) =>
                          r.code = USR_ILLEGAL_STATE
            /\ \A msg \in CrossNetMsgs :
                 (msg.method = SubmitAtomicExec /\ msg.params.cid = cid) =>
                   \A ks \in ExecOrders(st, cid) :
                     LET r == apply_msg(st, balance, SYSTEM_ACTOR_ADDR, msg, ks) IN
                     r.code # OK /\ r.st = st
            /\ \A caller \in Accounts, ks \in ExecOrders(st, cid) :
                 LET r == abort_atomic_exec(st, caller, cid, ks) IN
                 r.code # OK /\ r.st = st)
  /\ [][\A cid \in DOMAIN st.atomic_exec_registry :
          /\ cid \in DOMAIN st'.atomic_exec_registry
          /\ st'.atomic_exec_registry[cid].params = st.atomic_exec_registry[cid].params
          /\ st.atomic_exec_registry[cid].status # Initialized =>
               st'.atomic_exec_registry[cid] = st.atomic_exec_registry[cid]
          /\ st'.atomic_exec_registry[cid].status # st.atomic_exec_registry[cid].status =>
               st'.atomic_exec_registry[cid].status \in {Success, Aborted}
       ]_vars

\* a submission has just finalized an execution, and the submission of a
\* participant that comes next is refused with USR_ILLEGAL_STATE
C4_Witness ==
  /\ last = Call("SubmitAtomicExec", OK)
  /\ \E cid \in DOMAIN st.atomic_exec_registry :
       /\ st.atomic_exec_registry[cid].status \in {Success, Aborted}
       /\ \E caller \in Accounts, params \in SubmitParams :
            /\ params.cid = cid
            /\ submit_atomic_exec(st, caller, params,
                                  CHOOSE ks \in ExecOrders(st, cid) : TRUE).code
                 = USR_ILLEGAL_STATE

\* C5: an execution is Success only if every input has an entry in submitted
\* and all submitted Cids are equal; an accepted submission without conflict
\* returns Success when it completes submitted and Initialized before that
C5_SuccessNeedsAll ==
  /\ \A cid \in DOMAIN st.atomic_exec_registry :
       LET exec == st.atomic_exec_registry[cid] IN
       exec.status = Success =>
         /\ \A k \in DOMAIN exec.params.inputs : k.raw \in DOMAIN exec.submitted
         /\ \A p, q \in DOMAIN exec.submitted : exec.submitted[p] = exec.submitted[q]
  /\ \A caller \in Accounts \cup {SCA_ACTOR_ADDR}, params \in SubmitParams :
       \A ks \in ExecOrders(st, params.cid) :
         LET r == submit_atomic_exec(st, caller, params, ks) IN
         (r.code = OK /\ ~params.abort) =>
           LET exec == r.st.atomic_exec_registry[params.cid]
               agreed == Cardinality(Range(exec.submitted)) = 1
               complete == \A k \in DOMAIN exec.params.inputs :
                             k.raw \in DOMAIN exec.submitted IN
           /\ r.ret = exec.status
           /\ agreed => r.ret = IF complete THEN Success ELSE Initialized
           /\ r.ret = Success => (agreed /\ complete)

\* the last participant has just submitted the output the others submitted
C5_Witness ==
  /\ last = Call("SubmitAtomicExec", OK)
  /\ \E cid \in DOMAIN st.atomic_exec_registry :
       LET exec == st.atomic_exec_registry[cid] IN
       /\ exec.status = Success
       /\ Cardinality(DOMAIN exec.submitted) = Cardinality(DOMAIN exec.params.inputs)
       /\ Cardinality(DOMAIN exec.submitted) > 2

\* C6: apply_msg of a TopDown message succeeds only when msg.nonce equals
\* applied_topdown_nonce and then raises the counter by exactly 1; with any
\* other nonce it fails with USR_ILLEGAL_STATE and changes nothing; the
\* counter never decreases
C6_TopDownNonce ==
  /\ [](\A msg \in CrossNetMsgs :
          apply_type(msg, st.network_name) = TopDown =>
            LET r == apply_msg(st, balance, SYSTEM_ACTOR_ADDR, msg, << >>) IN
            /\ r.code = OK =>
                 /\ msg.nonce = st.applied_topdown_nonce
                 /\ r.st.applied_topdown_nonce = st.applied_topdown_nonce + 1
            /\ msg.nonce # st.applied_topdown_nonce =>
                 /\ r.code = USR_ILLEGAL_STATE
                 /\ r.st = st)
  /\ [][/\ st'.applied_topdown_nonce >= st.applied_topdown_nonce
        /\ st'.applied_topdown_nonce # st.applied_topdown_nonce =>
             /\ last' = Call("ApplyMessage", OK)
             /\ st'.applied_topdown_nonce = st.applied_topdown_nonce + 1
       ]_vars

\* a second top-down message has just been applied
C6_Witness ==
  /\ last = Call("ApplyMessage", OK)
  /\ st.applied_topdown_nonce = 2
  /\ DOMAIN applied.td = {0, 1}

\* C7: in each direction no nonce is applied by apply_msg more than once, and
\* the nonces are applied in increasing order without gaps
C7_ExactlyOnce ==
  /\ \A n \in DOMAIN applied.td : applied.td[n] = 1
  /\ \A n \in DOMAIN applied.bu : applied.bu[n] = 1
  /\ DOMAIN applied.td = 0..(st.applied_topdown_nonce - 1)
  /\ DOMAIN applied.bu = 0..st.applied_bottomup_nonce

\* C7 as the code has it: top-down nonces are applied exactly once, in
\* increasing order without gaps; bottom-up nonces are applied in increasing
\* order without gaps, and a bottom-up nonce may be applied again as long as
\* it is the latest one applied, never after a later one
C7_InOrderReplay ==
  /\ [](/\ \A n \in DOMAIN applied.td : applied.td[n] = 1
        /\ DOMAIN applied.td = 0..(st.applied_topdown_nonce - 1)
        /\ DOMAIN applied.bu = 0..st.applied_bottomup_nonce
        /\ \A msg \in CrossNetMsgs :
             LET r == apply_msg(st, balance, SYSTEM_ACTOR_ADDR, msg,
                                CHOOSE ks \in ExecOrders(st, ExecCid) : TRUE) IN
             IF apply_type(msg, st.network_name) = TopDown
             THEN r.code = OK => msg.nonce = st.applied_topdown_nonce
             ELSE r.code = OK =>
                    msg.nonce \in {st.applied_bottomup_nonce,
                                   st.applied_bottomup_nonce + 1})
  /\ [][/\ \A n \in DOMAIN applied.td' \ DOMAIN applied.td :
             n = st.applied_topdown_nonce
        /\ \A n \in DOMAIN applied.bu' :
             (n \notin DOMAIN applied.bu \/ applied.bu'[n] # applied.bu[n]) =>
               /\ n \in {st.applied_bottomup_nonce, st.applied_bottomup_nonce + 1}
               /\ n = st'.applied_bottomup_nonce
       ]_vars

\* bottom-up nonce 0 has just been applied for the second time
C7_Witness ==
  /\ last = Call("ApplyMessage", OK)
  /\ st.applied_bottomup_nonce = 0
  /\ DOMAIN applied.bu = {0} /\ applied.bu[0] = 2

\* C8: the keys of top_down_msgs of a registered subnet are exactly
\* 0..nonce-1, the message at key k carries nonce k, and every call leaves the
\* messages already queued in place and adds at most one
C8_DenseTopDownNonces ==
  /\ [](\A id \in DOMAIN st.subnets :
          LET sub == st.subnets[id] IN
          /\ DOMAIN sub.top_down_msgs = 0..(sub.nonce - 1)
          /\ \A k \in DOMAIN sub.top_down_msgs : sub.top_down_msgs[k].nonce = k)
  /\ [][\A id \in DOMAIN st.subnets \cap DOMAIN st'.subnets :
          /\ st'.subnets[id].nonce \in {st.subnets[id].nonce, st.subnets[id].nonce + 1}
          /\ \A k \in DOMAIN st.subnets[id].top_down_msgs :
               /\ k \in DOMAIN st'.subnets[id].top_down_msgs
               /\ st'.subnets[id].top_down_msgs[k] = st.subnets[id].top_down_msgs[k]
       ]_vars

\* a second message has just been funded into the queue of a subnet
C8_Witness ==
  /\ last = Call("Fund", OK)
  /\ \E id \in DOMAIN st.subnets :
       st.subnets[id].nonce = 2 /\ DOMAIN st.subnets[id].top_down_msgs = {0, 1}

\* C9: circ_supply of a registered subnet is the value of the top-down
\* messages committed into its queue minus the value released by the metas of
\* its accepted checkpoints, and is never negative; a checkpoint that releases
\* more than circ_supply is rejected
C9_CircSupply ==
  /\ \A a \in SubnetActors :
       ChildID(a) \in DOMAIN st.subnets =>
         LET sub == st.subnets[ChildID(a)]
             RECURSIVE Committed(_)
             Committed(K) == IF K = {} THEN 0
                             ELSE LET k == CHOOSE k \in K : TRUE IN
                               sub.top_down_msgs[k].value + Committed(K \ {k})
         IN /\ sub.circ_supply = Committed(DOMAIN sub.top_down_msgs) - released[a]
            /\ sub.circ_supply >= 0
  /\ \A caller \in SubnetActors :
       \A commit \in ChildCheckpoints(st, caller) :
         LET r == commit_child_check(st, balance, curr_epoch, caller, commit)
             value == SumSeq([i \in 1..Len(commit.cross_msgs) |->
                                commit.cross_msgs[i].value], Len(commit.cross_msgs))
         IN (ChildID(caller) \in DOMAIN st.subnets
             /\ value > st.subnets[ChildID(caller)].circ_supply) =>
              r.code # OK /\ r.st = st

\* a checkpoint has just released value that was funded into the subnet
C9_Witness ==
  /\ last = Call("CommitChildCheckpoint", OK)
  /\ \E a \in SubnetActors :
       /\ released[a] > 0
       /\ ChildID(a) \in DOMAIN st.subnets
       /\ st.subnets[ChildID(a)].nonce > 0

\* C10: kill of a registered subnet fails with USR_ILLEGAL_STATE while its
\* circ_supply is positive and changes nothing; with circ_supply = 0 it
\* removes the subnet, lowers total_subnets by 1 and sends the full stake to
\* the subnet actor
C10_Kill ==
  \A caller \in SubnetActors :
    ChildID(caller) \in DOMAIN st.subnets =>
      LET sub == st.subnets[ChildID(caller)]
          r == kill(st, balance, caller) IN
      IF sub.circ_supply > 0
      THEN r.code = USR_ILLEGAL_STATE /\ r.st = st
      ELSE /\ r.code = OK
           /\ ChildID(caller) \notin DOMAIN r.st.subnets
           /\ r.st.total_subnets = st.total_subnets - 1
           /\ r.sends = <<Send(caller, METHOD_SEND, sub.stake)>>

\* C11: the stakes of the registered subnets add up to at most the balance of
\* the SCA (nothing is held back for a release: release_stake and kill send
\* what they release in the same call), so release_stake and kill can pay out
\* what the registry records
C11_CollateralCovered ==
  LET RECURSIVE Stakes(_)
      Stakes(ids) == IF ids = {} THEN 0
                     ELSE LET id == CHOOSE id \in ids : TRUE IN
                       st.subnets[id].stake + Stakes(ids \ {id})
  IN Stakes(DOMAIN st.subnets) <= balance

\* C12: for an Active subnet that has a previous checkpoint,
\* commit_child_check accepts a commit only if commit.prev_check is the Cid of
\* that checkpoint and commit.epoch is not below its epoch, and fails with
\* USR_ILLEGAL_ARGUMENT and changes nothing otherwise; an accepted commit
\* becomes prev_checkpoint, so the accepted commits of a subnet form a
\* Cid-linked chain with non-decreasing epochs
C12_CheckpointChain ==
  /\ [](\A caller \in SubnetActors :
          LET sub == get_subnet(st, ChildID(caller))
              commits ==
                ChildCheckpoints(st, caller) \cup
                {[c EXCEPT !.prev_check = Checkpoint_cid(Checkpoint_new(c.source, 0))] :
                   c \in ChildCheckpoints(st, caller)}
          IN (sub # None /\ sub.prev_checkpoint # None) =>
               \A commit \in commits :
                 LET r == commit_child_check(st, balance, curr_epoch, caller, commit)
                     linked == /\ commit.prev_check = Checkpoint_cid(sub.prev_checkpoint)
                               /\ commit.epoch >= sub.prev_checkpoint.epoch
                 IN /\ r.code = OK =>
                         /\ linked
                         /\ r.st.subnets[ChildID(caller)].prev_checkpoint = commit
                    /\ (sub.status = Active /\ ~linked) =>
                         r.code = USR_ILLEGAL_ARGUMENT /\ r.st = st)
  /\ [][\A id \in DOMAIN st.subnets \cap DOMAIN st'.subnets :
          LET old == st.subnets[id].prev_checkpoint
              new == st'.subnets[id].prev_checkpoint IN
          new # old =>
            /\ last' = Call("CommitChildCheckpoint", OK)
            /\ new # None
            /\ old # None =>
                 new.prev_check = Checkpoint_cid(old) /\ new.epoch >= old.epoch
       ]_vars

\* a subnet has just committed a second checkpoint, linked to its first one
C12_Witness ==
  /\ last = Call("CommitChildCheckpoint", OK)
  /\ \E id \in DOMAIN st.subnets :
       LET prev == st.subnets[id].prev_checkpoint IN
       /\ prev # None
       /\ prev.prev_check # None
       /\ \E e \in DOMAIN st.checkpoints :
            \E i \in 1..Len(st.checkpoints[e].children) :
              /\ st.checkpoints[e].children[i].source = id
              /\ Len(st.checkpoints[e].children[i].checks) = 2

C14_WindowBucket ==
  LET period == st.check_period
      Bucket(e) == CHOOSE b \in 0..(e + period) :
                     b % period = 0 /\ b >= e /\ b - e < period
      bucket == Bucket(curr_epoch) IN
  /\ \A e \in 0..(MaxEpoch + 2 * period) : checkpoint_epoch(e, period) = Bucket(e)
  /\ get_window_checkpoint(st, curr_epoch).epoch = bucket
  /\ \A e \in DOMAIN st.checkpoints :
       /\ e % period = 0
       /\ st.checkpoints[e].epoch = e
       /\ st.checkpoints[e].source = st.network_name
  /\ \A caller \in SubnetActors :
       \A commit \in ChildCheckpoints(st, caller) :
         LET r == commit_child_check(st, balance, curr_epoch, caller, commit) IN
         r.code = OK =>
           /\ DOMAIN r.st.checkpoints = DOMAIN st.checkpoints \cup {bucket}
           /\ \A e \in DOMAIN st.checkpoints \ {bucket} :
                r.st.checkpoints[e] = st.checkpoints[e]
           /\ \E i \in 1..Len(r.st.checkpoints[bucket].children) :
                LET child == r.st.checkpoints[bucket].children[i] IN
                /\ child.source = commit.source
                /\ child.checks[Len(child.checks)] = Checkpoint_cid(commit)

\* two subnets have committed at epoch 1: both commits are in the window
\* checkpoint of bucket check_period, the only checkpoint stored
C14_Witness ==
  /\ last = Call("CommitChildCheckpoint", OK)
  /\ curr_epoch = 1
  /\ DOMAIN st.checkpoints = {st.check_period}
  /\ Len(st.checkpoints[st.check_period].children) = 2

\* C15: the burn of commit_child_check is the sum of the values of exactly
\* those metas of the commit that are addressed to this network
C15_BurnLocalMetas ==
  \A caller \in SubnetActors :
    \A commit \in ChildCheckpoints(st, caller) :
      LET r == commit_child_check(st, balance, curr_epoch, caller, commit)
          local == SumSeq([i \in 1..Len(commit.cross_msgs) |->
                             IF commit.cross_msgs[i].to = st.network_name
                             THEN commit.cross_msgs[i].value ELSE 0],
                          Len(commit.cross_msgs))
      IN r.code = OK => SendsValue(r.sends) = local

\* C15 as the code has it: the burn of commit_child_check is the sum of the
\* values of all the metas of the commit, those addressed to this network and
\* those routed on; it is the one send of an accepted commit, made with the
\* state the transaction committed and only when it is positive; a rejected
\* commit changes nothing and burns nothing
C15_BurnReleasedValue ==
  /\ [](\A caller \in SubnetActors :
          \A commit \in ChildCheckpoints(st, caller) :
            LET r == commit_child_check(st, balance, curr_epoch, caller, commit)
                total == SumSeq([i \in 1..Len(commit.cross_msgs) |->
                                   commit.cross_msgs[i].value], Len(commit.cross_msgs))
            IN /\ r.code = OK =>
                    /\ r.sends = IF total > 0
                                 THEN <<Send(BURNT_FUNDS_ACTOR_ADDR, METHOD_SEND, total)>>
                                 ELSE << >>
                    /\ r.st.subnets[ChildID(caller)].prev_checkpoint = commit
                    /\ r.st.subnets[ChildID(caller)].circ_supply
                         = st.subnets[ChildID(caller)].circ_supply - total
               /\ r.code # OK =>
                    /\ r.st = st
                    /\ r.code # SYS_SENDER_STATE_INVALID => r.sends = << >>
                    /\ r.code = SYS_SENDER_STATE_INVALID =>
                         (Len(r.sends) = 1 /\ r.sends[1].value > balance))
  /\ [][last' = Call("CommitChildCheckpoint", OK) /\ calls' # calls =>
          \E a \in SubnetActors :
            /\ balance' = balance - (released'[a] - released[a])
            /\ \A b \in SubnetActors \ {a} : released'[b] = released[b]
       ]_vars

\* a checkpoint whose only meta is addressed to another subnet has just been
\* accepted and its value has been burnt
C15_Witness ==
  /\ last = Call("CommitChildCheckpoint", OK)
  /\ \E a \in SubnetActors :
       /\ ChildID(a) \in DOMAIN st.subnets
       /\ LET prev == st.subnets[ChildID(a)].prev_checkpoint IN
          /\ prev # None
          /\ Len(prev.cross_msgs) = 1
          /\ prev.cross_msgs[1].to # st.network_name
          /\ prev.cross_msgs[1].value > 0
          /\ released[a] = prev.cross_msgs[1].value

\* C16: the window checkpoint does not depend on the order of the commits:
\* two commits of different child subnets on the same window, taken in either
\* order, leave the same metas in the window's cross_msgs (compared as a set,
\* whatever the order of the list), one for each (from, to) key
C16_OrderIndependent ==
  \A c1 \in ChildCheckpoints(st, "s1"), c2 \in ChildCheckpoints(st, "s2") :
    LET Then(r, caller, commit) ==
          commit_child_check(r.st, balance - SendsValue(r.sends), curr_epoch,
                             caller, commit)
        r1 == commit_child_check(st, balance, curr_epoch, "s1", c1)
        r2 == commit_child_check(st, balance, curr_epoch, "s2", c2)
        r12 == Then(r1, "s2", c2)
        r21 == Then(r2, "s1", c1)
        bucket == get_window_checkpoint(st, curr_epoch).epoch
    IN (r1.code = OK /\ r2.code = OK /\ r12.code = OK /\ r21.code = OK) =>
         LET w12 == r12.st.checkpoints[bucket].cross_msgs
             w21 == r21.st.checkpoints[bucket].cross_msgs IN
         /\ Range(w12) = Range(w21)
         /\ \A i, j \in 1..Len(w12) :
              (w12[i].from = w12[j].from /\ w12[i].to = w12[j].to) => i = j

\* C17: a method that returns an error leaves the state of the SCA as it was
\* and has issued no send during the call: no burn, no mint request, no
\* transfer and no forwarded message (a send that is itself the failure, for
\* want of balance, is not counted as issued)
C17_FailedCallNoEffect ==
  LET Issued(r) == IF r.code = SYS_SENDER_STATE_INVALID
                   THEN SubSeq(r.sends, 1, Len(r.sends) - 1) ELSE r.sends
      Clean(r) == r.code # OK => (r.st = st /\ Issued(r) = << >>) IN
  /\ \A caller \in SubnetActors \cup Senders, value \in 0..MaxStake :
       /\ Clean(register(st, caller, value))
       /\ Clean(add_stake(st, caller, value))
       /\ Clean(release_stake(st, balance, caller, value))
       /\ Clean(kill(st, balance, caller))
  /\ \A caller \in SubnetActors : \A commit \in ChildCheckpoints(st, caller) :
       Clean(commit_child_check(st, balance, curr_epoch, caller, commit))
  /\ \A caller \in Senders \cup SubnetActors, value \in 0..MaxValue :
       /\ \A a \in SubnetActors : Clean(fund(st, caller, value, ChildID(a)))
       /\ Clean(release(st, curr_epoch, caller, value))
  /\ \A caller \in Senders, msg \in SendCrossMsgs :
       \A destination \in {ROOTNET_ID, NetworkName} \cup {ChildID(a) : a \in SubnetActors} :
         Clean(send_cross(st, curr_epoch, caller, destination, msg))
  /\ \A caller \in {SYSTEM_ACTOR_ADDR} \cup Senders, msg \in CrossNetMsgs :
       \A ks \in (IF msg.method = SubmitAtomicExec
                  THEN ExecOrders(st, msg.params.cid) ELSE {<< >>}) :
         Clean(apply_msg(st, balance, caller, msg, ks))
  /\ \A caller \in Senders, raw \in ExecParamsRaw :
       Clean(init_atomic_exec(st, caller, raw))
  /\ \A caller \in Accounts, cid \in ExecCids : \A ks \in ExecOrders(st, cid) :
       /\ Clean(abort_atomic_exec(st, caller, cid, ks))
       /\ \A params \in {q \in SubmitParams : q.cid = cid} :
            Clean(submit_atomic_exec(st, PubKey[caller], params, ks))

\* C18: register by a subnet actor that is not in the registry, with a value
\* of at least min_stake, inserts the subnet network_name/caller with that
\* stake, Active, circ_supply 0 and nonce 0 and counts one subnet more; when
\* the id is registered already or the value is below min_stake the call
\* fails with USR_ILLEGAL_ARGUMENT and leaves registry and count as they are
C18_Register ==
  \A caller \in SubnetActors, value \in 0..MaxStake :
    LET r == register(st, caller, value)
        shid == st.network_name \o <<caller>> IN
    IF shid \notin DOMAIN st.subnets /\ value >= st.min_stake
    THEN /\ r.code = OK
         /\ r.ret = shid
         /\ DOMAIN r.st.subnets = DOMAIN st.subnets \cup {shid}
         /\ \A id \in DOMAIN st.subnets : r.st.subnets[id] = st.subnets[id]
         /\ r.st.subnets[shid].id = shid
         /\ r.st.subnets[shid].stake = value
         /\ r.st.subnets[shid].status = Active
         /\ r.st.subnets[shid].circ_supply = 0
         /\ r.st.subnets[shid].nonce = 0
         /\ r.st.total_subnets = st.total_subnets + 1
    ELSE /\ r.code = USR_ILLEGAL_ARGUMENT
         /\ r.st.subnets = st.subnets
         /\ r.st.total_subnets = st.total_subnets

\* a subnet has just been registered next to another one: registering either
\* again is refused, whatever the value
C18_Witness ==
  /\ last = Call("Register", OK)
  /\ st.total_subnets = 2
  /\ DOMAIN st.subnets = {ChildID(a) : a \in SubnetActors}
  /\ \E a \in SubnetActors : st.subnets[ChildID(a)].stake = MaxStake
  /\ \A a \in SubnetActors, v \in 1..MaxStake :
       register(st, a, v).code = USR_ILLEGAL_ARGUMENT

\* C19: release_stake of a value above 0 that neither the stake of the subnet
\* nor the balance of the SCA falls short of lowers the stake by the value and
\* sends the value to the calling subnet actor; a value above the stake or
\* above the balance fails with USR_ILLEGAL_STATE, a value of 0 or less and a
\* caller that is not registered fail with USR_ILLEGAL_ARGUMENT; a failing
\* call changes nothing and sends nothing, and no stake is ever negative
C19_ReleaseStake ==
  /\ \A id \in DOMAIN st.subnets : st.subnets[id].stake >= 0
  /\ \A caller \in SubnetActors, value \in -1..MaxStake + 1 :
       LET r == release_stake(st, balance, caller, value)
           id == ChildID(caller) IN
       IF value <= 0 \/ id \notin DOMAIN st.subnets
       THEN r.code = USR_ILLEGAL_ARGUMENT /\ r.st = st /\ r.sends = << >>
       ELSE IF value > st.subnets[id].stake \/ value > balance
       THEN r.code = USR_ILLEGAL_STATE /\ r.st = st /\ r.sends = << >>
       ELSE /\ r.code = OK
            /\ r.st.subnets[id].stake = st.subnets[id].stake - value
            /\ r.sends = <<Send(caller, METHOD_SEND, value)>>
            /\ DOMAIN r.st.subnets = DOMAIN st.subnets
            /\ \A o \in DOMAIN st.subnets \ {id} : r.st.subnets[o] = st.subnets[o]

\* release_stake has just taken part of a stake while the SCA holds less than
\* what is left of it: the rest is refused for want of balance, more than the
\* rest for want of stake
C19_Witness ==
  /\ last = Call("ReleaseStake", OK)
  /\ \E caller \in SubnetActors :
       LET id == ChildID(caller) IN
       /\ id \in DOMAIN st.subnets
       /\ st.subnets[id].stake > balance
       /\ balance > 0
       /\ release_stake(st, balance, caller, balance).code = OK
       /\ release_stake(st, balance, caller, st.subnets[id].stake).code = USR_ILLEGAL_STATE
       /\ release_stake(st, balance, caller, st.subnets[id].stake + 1).code = USR_ILLEGAL_STATE

\* C20: init_atomic_exec by a signable caller, with inputs whose addresses
\* resolve, fails with USR_ILLEGAL_ARGUMENT and leaves the registry of
\* executions as it is when an execution exists under the Cid of the
\* parameters, when msgs is empty, when there are fewer than 2 inputs, when
\* the current network is not the common parent of the subnets of the inputs,
\* or when the msgs do not all have the same method and to; otherwise it
\* stores, under that Cid, an execution that is Initialized and has no
\* submission, and returns the Cid
C20_InitAtomicExec ==
  LET k1 == new_hierarchical(ChildID("s1"), PubKey["a"])
      k2 == new_hierarchical(ChildID("s2"), PubKey["b"])
      k4 == new_hierarchical(NetworkName, PubKey["c"])
      k5 == new_hierarchical(SubnetID_new(ChildID("s1"), "s3"), PubKey["b"])
      Inputs(ks) == [k \in ks |-> LockedStateInfo(Cid("locked"), "l1")]
      Msg(method, to, nonce) ==
        StorableMsg(new_hierarchical(NetworkName, "l"), to, method, None, 0, nonce)
      Raws == ExecParamsRaw
              \cup {[msgs |-> ms, inputs |-> Inputs({k1, k2})] :
                      ms \in {<< >>,
                              <<Msg(METHOD_SEND, "l", 0), Msg(METHOD_SEND, "l", 1)>>,
                              <<Msg(METHOD_SEND, "l", 0), Msg(METHOD_UNLOCK, "l", 0)>>,
                              <<Msg(METHOD_SEND, "l", 0), Msg(METHOD_SEND, "m", 0)>>}}
              \cup {[msgs |-> ExecMsgs, inputs |-> Inputs(ks)] :
                      ks \in {{}, {k1}, {k1, k4}, {k1, k5}, {k2, k5}}}
      IsPrefix(p, q) == Len(p) <= Len(q) /\ SubSeq(q, 1, Len(p)) = p
      CommonParent(curr, subnets) ==
        /\ \A sn \in subnets : IsPrefix(curr, sn)
        /\ ~\E sn0 \in subnets : \E n \in Len(curr) + 1..Len(sn0) :
              \A sn \in subnets : IsPrefix(SubSeq(sn0, 1, n), sn) IN
  \A caller \in Senders, raw \in Raws :
    LET r == init_atomic_exec(st, caller, raw)
        cid == Cid(raw)
        Rejected ==
          \/ cid \in DOMAIN st.atomic_exec_registry
          \/ Len(raw.msgs) = 0
          \/ Cardinality(DOMAIN raw.inputs) < 2
          \/ ~CommonParent(st.network_name, {k.subnet : k \in DOMAIN raw.inputs})
          \/ \E i, j \in 1..Len(raw.msgs) :
               raw.msgs[i].method # raw.msgs[j].method \/ raw.msgs[i].to # raw.msgs[j].to IN
    IF Rejected
    THEN r.code = USR_ILLEGAL_ARGUMENT
         /\ r.st.atomic_exec_registry = st.atomic_exec_registry
    ELSE /\ r.code = OK
         /\ r.ret = cid
         /\ DOMAIN r.st.atomic_exec_registry = DOMAIN st.atomic_exec_registry \cup {cid}
         /\ r.st.atomic_exec_registry[cid].status = Initialized
         /\ r.st.atomic_exec_registry[cid].submitted = EmptyAmt
         /\ r.st.atomic_exec_registry[cid].params.msgs = raw.msgs
         /\ \A c \in DOMAIN st.atomic_exec_registry :
              r.st.atomic_exec_registry[c] = st.atomic_exec_registry[c]

\* the execution over the two subnets has just been initialized, and to
\* initialize it again is refused
C20_Witness ==
  /\ last = Call("InitAtomicExec", OK)
  /\ DOMAIN st.atomic_exec_registry = {ExecCid}
  /\ st.atomic_exec_registry[ExecCid].status = Initialized
  /\ st.atomic_exec_registry[ExecCid].submitted = EmptyAmt
  /\ \A caller \in Senders :
       init_atomic_exec(st, caller, [msgs |-> ExecMsgs, inputs |-> ExecInputs]).code
         = USR_ILLEGAL_ARGUMENT

\* C21: while an execution is Initialized, the submission of an output by a
\* participant that has an entry in submitted fails with USR_ILLEGAL_ARGUMENT
\* whatever the output, and changes nothing; an entry of submitted is never
\* removed and never overwritten
C21_SubmitOnce ==
  /\ [](\A cid \in DOMAIN st.atomic_exec_registry :
          LET exec == st.atomic_exec_registry[cid] IN
          exec.status = Initialized =>
            \A caller \in DOMAIN exec.submitted, output \in Outputs :
              \A ks \in ExecOrders(st, cid) :
                LET r == submit_atomic_exec(st, caller,
                                            SubmitExecParams(cid, FALSE, output), ks) IN
                r.code = USR_ILLEGAL_ARGUMENT /\ r.st = st)
  /\ [][\A cid \in DOMAIN st.atomic_exec_registry :
          \A p \in DOMAIN st.atomic_exec_registry[cid].submitted :
            /\ p \in DOMAIN st'.atomic_exec_registry[cid].submitted
            /\ st'.atomic_exec_registry[cid].submitted[p]
                 = st.atomic_exec_registry[cid].submitted[p]
       ]_vars

\* one of three participants has just submitted its output, and neither the
\* same output nor another one is taken from it again
C21_Witness ==
  /\ last = Call("SubmitAtomicExec", OK)
  /\ ExecCid \in DOMAIN st.atomic_exec_registry
  /\ st.atomic_exec_registry[ExecCid].status = Initialized
  /\ DOMAIN st.atomic_exec_registry[ExecCid].submitted = {"a"}
  /\ st.atomic_exec_registry[ExecCid].submitted["a"] = Cid("o1")
  /\ \A output \in Outputs : \A ks \in ExecOrders(st, ExecCid) :
       submit_atomic_exec(st, "a", SubmitExecParams(ExecCid, FALSE, output), ks).code
         = USR_ILLEGAL_ARGUMENT

\* C22: a submission or an abort_atomic_exec whose caller is not among the
\* inputs of the execution is rejected, a submission to an Initialized
\* execution with USR_ILLEGAL_ARGUMENT, and changes nothing: status and
\* submitted stay as they are and no result message is queued; an execution
\* changes only in a call made by one of its participants
C22_OnlyParticipants ==
  /\ [](\A cid \in DOMAIN st.atomic_exec_registry :
          LET exec == st.atomic_exec_registry[cid]
              Stranger(caller) == \A k \in DOMAIN exec.params.inputs : k.raw # caller IN
          \A caller \in Accounts \cup {SCA_ACTOR_ADDR} :
            Stranger(caller) =>
              \A ks \in ExecOrders(st, cid) :
                /\ \A params \in SubmitParams :
                     params.cid = cid =>
                       LET r == submit_atomic_exec(st, caller, params, ks) IN
                       /\ r.code # OK
                       /\ r.st = st
                       /\ exec.status = Initialized => r.code = USR_ILLEGAL_ARGUMENT
                /\ LET r == abort_atomic_exec(st, caller, cid, ks) IN
                   r.code # OK /\ r.st = st)
  /\ [][\A cid \in DOMAIN st.atomic_exec_registry :
          st'.atomic_exec_registry[cid] # st.atomic_exec_registry[cid] =>
            /\ last'.method \in {"SubmitAtomicExec", "AbortAtomicExec"}
            /\ \E caller \in Accounts, ks \in ExecOrders(st, cid) :
                 /\ \E k \in DOMAIN st.atomic_exec_registry[cid].params.inputs :
                      k.raw = caller
                 /\ \/ st' = abort_atomic_exec(st, caller, cid, ks).st
                    \/ \E params \in SubmitParams :
                         /\ params.cid = cid
                         /\ st' = submit_atomic_exec(st, caller, params, ks).st
       ]_vars

\* an execution is Initialized with one output submitted, and neither the
\* submission nor the abort of an account outside its inputs is taken
C22_Witness ==
  /\ last = Call("SubmitAtomicExec", OK)
  /\ ExecCid \in DOMAIN st.atomic_exec_registry
  /\ st.atomic_exec_registry[ExecCid].status = Initialized
  /\ DOMAIN st.atomic_exec_registry[ExecCid].submitted = {"b"}
  /\ ~is_addr_in_exec("d", st.atomic_exec_registry[ExecCid].params.inputs)
  /\ \A ks \in ExecOrders(st, ExecCid) :
       /\ abort_atomic_exec(st, "d", ExecCid, ks).code # OK
       /\ submit_atomic_exec(st, "d", SubmitExecParams(ExecCid, FALSE, "o1"), ks).code
            = USR_ILLEGAL_ARGUMENT

\* C23: from Initialized, an abort by a participant, as a submission with
\* abort = true or as abort_atomic_exec, sets the status to Aborted, stores
\* the record and returns Aborted, however many outputs have been submitted
C23_AbortAlways ==
  \A cid \in DOMAIN st.atomic_exec_registry :
    LET exec == st.atomic_exec_registry[cid] IN
    exec.status = Initialized =>
      \A caller \in Accounts :
        (\E k \in DOMAIN exec.params.inputs : k.raw = caller) =>
          \A ks \in ExecOrders(st, cid) :
            LET Aborts(r) == /\ r.code = OK
                             /\ r.ret = Aborted
                             /\ r.st.atomic_exec_registry[cid].status = Aborted IN
            /\ Aborts(abort_atomic_exec(st, caller, cid, ks))
            /\ \A output \in Outputs :
                 Aborts(submit_atomic_exec(st, caller,
                                           SubmitExecParams(cid, TRUE, output), ks))

\* C23, amended: the abort does so when every subnet of the inputs is
\* registered, and leaves the outputs submitted so far in the record; when
\* one of them is not registered the result cannot be queued and the abort
\* fails with USR_ILLEGAL_STATE and changes nothing
C23_AbortWhenQueued ==
  \A cid \in DOMAIN st.atomic_exec_registry :
    LET exec == st.atomic_exec_registry[cid] IN
    exec.status = Initialized =>
      \A caller \in Accounts :
        (\E k \in DOMAIN exec.params.inputs : k.raw = caller) =>
          \A ks \in ExecOrders(st, cid) :
            LET Aborts(r) ==
                  IF \A k \in DOMAIN exec.params.inputs : k.subnet \in DOMAIN st.subnets
                  THEN /\ r.code = OK
                       /\ r.ret = Aborted
                       /\ r.st.atomic_exec_registry[cid]
                            = [exec EXCEPT !.status = Aborted]
                  ELSE r.code = USR_ILLEGAL_STATE /\ r.st = st IN
            /\ Aborts(abort_atomic_exec(st, caller, cid, ks))
            /\ \A output \in Outputs :
                 Aborts(submit_atomic_exec(st, caller,
                                           SubmitExecParams(cid, TRUE, output), ks))

\* abort_atomic_exec has just aborted an execution for which two of the
\* three participants had submitted their output
C23_Witness ==
  /\ last = Call("AbortAtomicExec", OK)
  /\ ExecCid \in DOMAIN st.atomic_exec_registry
  /\ st.atomic_exec_registry[ExecCid].status = Aborted
  /\ Cardinality(DOMAIN st.atomic_exec_registry[ExecCid].submitted) = 2

\* C24: an entry of atomic_exec_registry is never removed: the record of an
\* execution that is Success or Aborted stays in the registry as it is, and
\* init_atomic_exec with the parameters of a registered execution fails with
\* USR_ILLEGAL_ARGUMENT, whatever the status of the execution
C24_RegistryKeepsRecords ==
  /\ [][\A cid \in DOMAIN st.atomic_exec_registry :
          /\ cid \in DOMAIN st'.atomic_exec_registry
          /\ st.atomic_exec_registry[cid].status \in {Success, Aborted} =>
               st'.atomic_exec_registry[cid] = st.atomic_exec_registry[cid]
       ]_vars
  /\ [](\A raw \in ExecParamsRaw, caller \in Accounts :
          AtomicExecParamsRaw_cid(raw) \in DOMAIN st.atomic_exec_registry =>
            LET r == init_atomic_exec(st, caller, raw) IN
            r.code = USR_ILLEGAL_ARGUMENT /\ r.st = st)

\* abort_atomic_exec has just aborted an execution before any output came:
\* the record is in the registry and the execution cannot be initialized anew
C24_Witness ==
  /\ last = Call("AbortAtomicExec", OK)
  /\ DOMAIN st.atomic_exec_registry = {ExecCid}
  /\ st.atomic_exec_registry[ExecCid].status = Aborted
  /\ st.atomic_exec_registry[ExecCid].submitted = EmptyAmt
  /\ \A caller \in Accounts :
       init_atomic_exec(st, caller, [msgs |-> ExecMsgs, inputs |-> ExecInputs]).code
         = USR_ILLEGAL_ARGUMENT

\* C25: after any sequence of commit_child_check, release and send_cross
\* calls the keys of bottomup_msg_meta are 0..k-1 for some k, every meta is
\* stored at the value State.nonce had when it was recorded, and none of
\* these calls lowers State.nonce
C25_DenseBottomUpMetas ==
  LET Dense(amt) == DOMAIN amt = 0..Cardinality(DOMAIN amt) - 1
      Recorded(s, r) ==
        r.code = OK =>
          /\ Dense(r.st.bottomup_msg_meta)
          /\ r.st.nonce >= s.nonce
          /\ \A k \in DOMAIN r.st.bottomup_msg_meta \ DOMAIN s.bottomup_msg_meta :
               /\ k >= s.nonce /\ k < r.st.nonce
               /\ r.st.bottomup_msg_meta[k].nonce = k
          /\ \A k \in DOMAIN s.bottomup_msg_meta :
               /\ k \in DOMAIN r.st.bottomup_msg_meta
               /\ r.st.bottomup_msg_meta[k] = s.bottomup_msg_meta[k] IN
  /\ Dense(st.bottomup_msg_meta)
  /\ \A k \in DOMAIN st.bottomup_msg_meta : st.bottomup_msg_meta[k].nonce = k
  /\ \A caller \in SubnetActors : \A commit \in ChildCheckpoints(st, caller) :
       Recorded(st, commit_child_check(st, balance, curr_epoch, caller, commit))
  /\ \A caller \in Senders, value \in Values :
       Recorded(st, release(st, curr_epoch, caller, value))
  /\ \A caller \in Senders, msg \in SendCrossMsgs :
       \A destination \in {ROOTNET_ID, NetworkName} \cup {ChildID(a) : a \in SubnetActors} :
         Recorded(st, send_cross(st, curr_epoch, caller, destination, msg))

\* C26: apply_msg takes a BottomUp message whose nonce is the one of
\* applied_bottomup_nonce, and leaves the counter as it is, or the one after
\* it, and raises the counter by one; a nonce further ahead or older fails
\* with USR_ILLEGAL_STATE; a failing call leaves the counter unchanged
C26_BottomUpNonce ==
  \A msg \in CrossNetMsgs :
    apply_type(msg, st.network_name) = BottomUp =>
      \A ks \in (IF msg.method = SubmitAtomicExec
                 THEN ExecOrders(st, msg.params.cid) ELSE {<< >>}) :
        LET r == apply_msg(st, balance, SYSTEM_ACTOR_ADDR, msg, ks)
            curr == st.applied_bottomup_nonce IN
        /\ r.code # OK => r.st = st
        /\ IF msg.nonce = curr + 1
           THEN r.code = OK => r.st.applied_bottomup_nonce = curr + 1
           ELSE IF msg.nonce = curr
           THEN r.code = OK => r.st.applied_bottomup_nonce = curr
           ELSE r.code = USR_ILLEGAL_STATE
        /\ (/\ msg.nonce \in {curr, curr + 1}
            /\ msg.method = METHOD_SEND
            /\ msg.to.subnet = st.network_name
            /\ msg.value <= balance) => r.code = OK

\* the bottom-up nonce 1 has just been applied after nonce 0: nonce 1 is taken
\* again, nonce 2 is taken next, and nonce 0 is refused
C26_Witness ==
  /\ last = Call("ApplyMessage", OK)
  /\ st.applied_bottomup_nonce = 1
  /\ balance >= 1
  /\ \E msg \in CrossNetMsgs :
       /\ apply_type(msg, st.network_name) = BottomUp
       /\ msg.method = METHOD_SEND /\ msg.to.subnet = st.network_name
       /\ apply_msg(st, balance, SYSTEM_ACTOR_ADDR, [msg EXCEPT !.nonce = 0], << >>).code
            = USR_ILLEGAL_STATE
       /\ apply_msg(st, balance, SYSTEM_ACTOR_ADDR, [msg EXCEPT !.nonce = 1], << >>).code = OK
       /\ apply_msg(st, balance, SYSTEM_ACTOR_ADDR, [msg EXCEPT !.nonce = 2], << >>).code = OK

\* C27: for the subnet from of this SCA and any subnet to, is_bottomup(from,
\* to), and with it hc_type = BottomUp, is true exactly when from lies
\* strictly below the common parent of from and to: false when from = to and
\* when to is a descendant of from, true when to is a strict ancestor of from
\* and when to lies in a sibling subtree
C27_BottomUpBelowCommonParent ==
  \A to \in SubnetIDs :
    LET from == st.network_name
        IsPrefix(p, q) == Len(p) <= Len(q) /\ SubSeq(q, 1, Len(p)) = p
        shared == Cardinality({n \in 1..Len(from) :
                                 n <= Len(to) /\ SubSeq(from, 1, n) = SubSeq(to, 1, n)})
        msg == StorableMsg(new_hierarchical(from, "a"), new_hierarchical(to, "b"),
                           METHOD_SEND, None, 0, 0) IN
    /\ is_bottomup(from, to) <=> Len(from) > shared
    /\ hc_type(msg) = BottomUp <=> is_bottomup(from, to)
    /\ hc_type(msg) \in {BottomUp, TopDown}
    /\ from = to => ~is_bottomup(from, to)
    /\ (IsPrefix(from, to) /\ from # to) => ~is_bottomup(from, to)
    /\ (IsPrefix(to, from) /\ from # to) => is_bottomup(from, to)
    /\ (~IsPrefix(to, from) /\ ~IsPrefix(from, to)) => is_bottomup(from, to)

\* send_cross of the SCA of a subnet MaxDepth below the root has just committed
\* a message for a subnet of a sibling subtree as a bottom-up message: its
\* meta is in the window checkpoint and its value is burnt
C27_Witness ==
  /\ last = Call("SendCross", OK)
  /\ Len(st.network_name) = MaxDepth
  /\ st.nonce = 1
  /\ \E e \in DOMAIN st.checkpoints :
       \E i \in 1..Len(st.checkpoints[e].cross_msgs) :
         LET meta == st.checkpoints[e].cross_msgs[i] IN
         /\ meta.from = st.network_name
         /\ Len(meta.to) = MaxDepth
         /\ meta.to[1] # st.network_name[1]
         /\ is_bottomup(meta.from, meta.to)

\* C28: for a message with hierarchical from and to and the subnet curr of
\* this SCA, apply_type(curr) is BottomUp exactly when hc_type is BottomUp and the
\* common parent of curr and to is the common parent of from and to, the same
\* subnet at the same depth, and TopDown in every other case
C28_ApplyType ==
  LET curr == st.network_name
      SharedLength(a, b) ==
        Cardinality({n \in 1..Len(a) : n <= Len(b) /\ SubSeq(a, 1, n) = SubSeq(b, 1, n)}) IN
  \A to \in SubnetIDs :
    LET here == SharedLength(curr, to) IN
    \A from \in SubnetIDs :
      LET msg == [from |-> [subnet |-> from], to |-> [subnet |-> to]]
          ty == apply_type(msg, curr)
          up == hc_type(msg) = BottomUp
          same == SharedLength(from, to) = here IN
      /\ ty \in {BottomUp, TopDown}
      /\ ty = BottomUp <=> (up /\ same)

\* apply_msg has just applied, as a top-down message, a message whose own
\* direction is bottom-up: it came up from a sibling and has arrived in the
\* subnet it is for
C28_Witness ==
  /\ last = Call("ApplyMessage", OK)
  /\ Len(st.network_name) = MaxDepth
  /\ st.applied_topdown_nonce = 1
  /\ st.applied_bottomup_nonce = -1
  /\ \E msg \in RoutingMsgs :
       /\ msg.to.subnet = st.network_name
       /\ msg.nonce = 0
       /\ hc_type(msg) = BottomUp
       /\ apply_type(msg, st.network_name) = TopDown

\* C29: for a handle of every type, when the function given to modify or to
\* update returns an error, the call returns the error, the Cid of the handle
\* is the one it had before the call, and a later load or get gives the value
\* held before the call
C29_FailedModifyKeepsHandle ==
  /\ [](\A f \in Closures(handle.type) :
          f.fails =>
            LET before == TCid_load(handle, store)
                modified == TCid_modify(handle, store, f)
                updated == TCid_update(handle, store, f) IN
            /\ before.ok
            /\ call_f(f, before.ret).ok = FALSE
            /\ \A r \in {modified, updated} :
                 /\ ~r.ok
                 /\ r.handle.cid = handle.cid
                 /\ TCid_load(r.handle, r.store).ok
                 /\ TCid_load(r.handle, r.store).ret = before.ret)
  /\ [][(last'.method \in {"Modify", "Update"} /\ last'.code # OK /\ calls' # calls) =>
          /\ handle'.cid = handle.cid
          /\ TCid_load(handle', store').ret = TCid_load(handle, store).ret]_vars

\* modify of a HAMT that holds both keys has just returned the error of its
\* function
C29_Witness ==
  /\ last = Call("Modify", "Err")
  /\ handle # None
  /\ handle.type = "THamt"
  /\ DOMAIN TCid_load(handle, store).ret = {"spam", "eggs"}

\* C30: after put or flush of a value v, or new_cbor of it, the Cid of the
\* handle is the Cid of the content of v and load or get gives v back; after a
\* modify or update whose function f succeeds, load or get gives the value
\* held before with f applied; a handle given the same value in another store
\* holds the same Cid
C30_RoundTrip ==
  LET T == handle.type
      held == TCid_load(handle, store) IN
  /\ held.ok
  /\ handle.cid = Cid(Cbor(T, held.ret))
  /\ \A value \in TcidValues(T) :
       LET flushed == TCid_flush(handle, store, value)
           made == TCid_new(T, store, value)
           other == TCid_flush(TCid_new(T, {}, value).handle, {}, held.ret) IN
       /\ flushed.ok
       /\ flushed.handle.cid = Cid(Cbor(T, value))
       /\ TCid_load(flushed.handle, flushed.store).ok
       /\ TCid_load(flushed.handle, flushed.store).ret = value
       /\ made.ok
       /\ T = "TLink" => /\ made.handle.cid = Cid(Cbor(T, value))
                         /\ TCid_load(made.handle, made.store).ret = value
       /\ T # "TLink" => DOMAIN TCid_load(made.handle, made.store).ret = {}
       /\ other.handle.cid = handle.cid
       /\ \A value2 \in TcidValues(T) :
            value = value2 <=>
              flushed.handle.cid = TCid_flush(handle, store, value2).handle.cid
  /\ \A f \in Closures(T) :
       ~f.fails =>
         LET called == call_f(f, held.ret)
             modified == TCid_modify(handle, store, f)
             updated == TCid_update(handle, store, f)
             Applied(r) == /\ r.ok
                           /\ TCid_load(r.handle, r.store).ok
                           /\ TCid_load(r.handle, r.store).ret = called.value
                           /\ r.handle.cid = Cid(Cbor(T, called.value)) IN
         /\ called.ok
         /\ Applied(modified) /\ modified.ret = called.ret
         /\ Applied(updated) /\ updated.ret = None

\* update of an AMT has just left a value at its second index only, after
\* the first index was set and deleted again
C30_Witness ==
  /\ last = Call("Update", OK)
  /\ handle # None
  /\ handle.type = "TAmt"
  /\ DOMAIN TCid_load(handle, store).ret = {TcidKeys("TAmt")[2]}
  /\ Cardinality(store) = MaxCalls

\* C31: send_cross fails with USR_ILLEGAL_ARGUMENT and changes nothing when
\* the destination is unset or is the current network; in every other case a
\* top-down message is committed into the queue of the first child on the way
\* to the destination (its nonce + 1, its circ_supply + value, nothing burnt)
\* and a bottom-up message is added to the meta of the window checkpoint, its
\* value burnt after the transaction and only if it is positive
C31_SendCrossCommits ==
  \A caller \in Senders, value \in {0, MaxValue},
     destination \in {SubnetID_default, ROOTNET_ID, NetworkName}
                       \cup {ChildID(a) : a \in SubnetActors}
                       \cup {SubnetID_new(ChildID(a), a) : a \in SubnetActors} :
    LET msg == StorableMsg(None, "b", METHOD_SEND, None, value, 0)
        r == send_cross(st, curr_epoch, caller, destination, msg)
        from == new_hierarchical(st.network_name, resolve_secp_bls(caller))
        to == new_hierarchical(destination, "b")
        m == [msg EXCEPT !.from = from, !.to = to]
        next == SubnetID_down(destination, st.network_name)
        old == get_window_checkpoint(st, curr_epoch)
        i == crossmsg_meta_index(old, st.network_name, destination)
        held == IF i = 0 THEN 0 ELSE old.cross_msgs[i].value IN
    IF destination \in {SubnetID_default, st.network_name}
    THEN r.code = USR_ILLEGAL_ARGUMENT /\ r.st = st /\ r.sends = << >>
    ELSE IF hc_type(m) = TopDown
    THEN /\ r.code = OK
         /\ r.sends = << >>
         /\ next \in DOMAIN st.subnets
         /\ r.st.subnets[next].nonce = st.subnets[next].nonce + 1
         /\ r.st.subnets[next].circ_supply = st.subnets[next].circ_supply + value
         /\ r.st.subnets[next].top_down_msgs[st.subnets[next].nonce] =
              [m EXCEPT !.nonce = st.subnets[next].nonce]
         /\ r.st.checkpoints = st.checkpoints
    ELSE LET new == get_window_checkpoint(r.st, curr_epoch)
             j == crossmsg_meta_index(new, st.network_name, destination) IN
         /\ r.code = OK
         /\ j # 0
         /\ new.cross_msgs[j].value = held + value
         /\ r.st.subnets = st.subnets
         /\ r.sends = IF value > 0
                      THEN <<Send(BURNT_FUNDS_ACTOR_ADDR, METHOD_SEND, value)>>
                      ELSE << >>

\* C31 amended: as C31, with the top-down message committed when the first
\* child on the way to the destination is registered; when it is not,
\* send_cross fails with USR_ILLEGAL_STATE and changes nothing
C31_SendCrossCommitsToRegistered ==
  \A caller \in Senders, value \in {0, MaxValue},
     destination \in {SubnetID_default, ROOTNET_ID, NetworkName}
                       \cup {ChildID(a) : a \in SubnetActors}
                       \cup {SubnetID_new(ChildID(a), a) : a \in SubnetActors} :
    LET msg == StorableMsg(None, "b", METHOD_SEND, None, value, 0)
        r == send_cross(st, curr_epoch, caller, destination, msg)
        from == new_hierarchical(st.network_name, resolve_secp_bls(caller))
        to == new_hierarchical(destination, "b")
        m == [msg EXCEPT !.from = from, !.to = to]
        next == SubnetID_down(destination, st.network_name)
        old == get_window_checkpoint(st, curr_epoch)
        i == crossmsg_meta_index(old, st.network_name, destination)
        held == IF i = 0 THEN 0 ELSE old.cross_msgs[i].value IN
    IF destination \in {SubnetID_default, st.network_name}
    THEN r.code = USR_ILLEGAL_ARGUMENT /\ r.st = st /\ r.sends = << >>
    ELSE IF hc_type(m) = TopDown /\ next \notin DOMAIN st.subnets
    THEN r.code = USR_ILLEGAL_STATE /\ r.st = st /\ r.sends = << >>
    ELSE IF hc_type(m) = TopDown
    THEN /\ r.code = OK
         /\ r.sends = << >>
         /\ r.st.subnets[next].nonce = st.subnets[next].nonce + 1
         /\ r.st.subnets[next].circ_supply = st.subnets[next].circ_supply + value
         /\ r.st.subnets[next].top_down_msgs[st.subnets[next].nonce] =
              [m EXCEPT !.nonce = st.subnets[next].nonce]
         /\ \A id \in DOMAIN st.subnets \ {next} : r.st.subnets[id] = st.subnets[id]
         /\ r.st.checkpoints = st.checkpoints
    ELSE LET new == get_window_checkpoint(r.st, curr_epoch)
             j == crossmsg_meta_index(new, st.network_name, destination) IN
         /\ r.code = OK
         /\ j # 0
         /\ new.cross_msgs[j].value = held + value
         /\ r.st.subnets = st.subnets
         /\ r.st.nonce = st.nonce + 1
         /\ r.sends = IF value > 0
                      THEN <<Send(BURNT_FUNDS_ACTOR_ADDR, METHOD_SEND, value)>>
                      ELSE << >>

\* send_cross has just committed a message of an account for an address of a
\* child into the queue of that child, and the child holds its value
C31_Witness ==
  /\ last = Call("SendCross", OK)
  /\ \E a \in SubnetActors :
       /\ ChildID(a) \in DOMAIN st.subnets
       /\ st.subnets[ChildID(a)].circ_supply > 0
       /\ \E n \in DOMAIN st.subnets[ChildID(a)].top_down_msgs :
            LET queued == st.subnets[ChildID(a)].top_down_msgs[n] IN
            /\ queued.to = new_hierarchical(ChildID(a), "b")
            /\ queued.from = new_hierarchical(NetworkName, PubKey["a"])
            /\ queued.nonce = n

\* C32: for every non-empty map of inputs and every subnet curr,
\* is_common_parent(curr, inputs) is true exactly when the common parent of
\* the subnets of all the keys is curr, whatever the order in which the map
\* hands out its keys
C32_IsCommonParent ==
  LET keys == {new_hierarchical(sn, PubKey["a"]) :
                 sn \in {ROOTNET_ID, NetworkName, ChildID("s1"), ChildID("s2"),
                         SubnetID_new(ChildID("s1"), "s2")}}
      \* the longest path that is a prefix of the subnet of every key
      Parent(S) ==
        LET first == (CHOOSE k \in S : TRUE).subnet IN
        SubSeq(first, 1,
               Cardinality({n \in 1..Len(first) :
                              \A k \in S : /\ n <= Len(k.subnet)
                                           /\ SubSeq(k.subnet, 1, n) = SubSeq(first, 1, n)})) IN
  \A S \in SUBSET keys :
    (S # {} /\ Cardinality(S) <= Cardinality(SubnetActors) + 1) =>
      LET inputs == [k \in S |-> LockedStateInfo(Cid("locked"), "l")]
          parent == Parent(S) IN
      \A curr \in {st.network_name, ChildID("s1")} :
        /\ is_common_parent(curr, inputs) <=> parent = curr
        /\ \A ks \in Orders(S) : is_common_parent_in(curr, ks) <=> parent = curr

\* init_atomic_exec has just taken an execution whose inputs lie in two
\* children of this network, which is their common parent, and refuses one
\* whose inputs all lie in one child
C32_Witness ==
  /\ last = Call("InitAtomicExec", OK)
  /\ ExecCid \in DOMAIN st.atomic_exec_registry
  /\ is_common_parent(st.network_name, st.atomic_exec_registry[ExecCid].params.inputs)
  /\ \E raw \in ExecParamsRaw :
       /\ \A k \in DOMAIN raw.inputs : k.subnet = ChildID("s1")
       /\ ~is_common_parent(st.network_name, input_into_ids(raw).inputs)
       /\ init_atomic_exec(st, "a", raw).code = USR_ILLEGAL_ARGUMENT

\* C33: a submission to an atomic execution is executed only by apply_msg,
\* called by the system actor, for a cross-message for the SCA of the current
\* network, and only when that cross-message is applied as a top-down
\* message; the executions looked at are those of the registry and one whose
\* inputs are held by the SCAs of the two children
C33_SubmitOnlyTopDown ==
  LET raw == [msgs |-> ExecMsgs,
              inputs |-> [k \in {new_hierarchical(ChildID(a), SCA_ACTOR_ADDR) :
                                   a \in SubnetActors} |->
                            LockedStateInfo(Cid("locked"), "l")]]
      cid == AtomicExecParamsRaw_cid(raw)
      init == init_atomic_exec(st, "a", raw)
      s0 == IF init.code = OK THEN init.st ELSE st IN
  \A caller \in {SYSTEM_ACTOR_ADDR, "a"},
     from \in {ROOTNET_ID, ChildID("s1")},
     to \in {new_hierarchical(NetworkName, SCA_ACTOR_ADDR),
             new_hierarchical(NetworkName, "a")},
     n \in {0, st.applied_topdown_nonce},
     output \in Outputs :
    LET msg == StorableMsg(new_hierarchical(from, "a"), to, SubmitAtomicExec,
                           SubmitExecParams(cid, FALSE, output), 0, n)
        r == apply_msg(s0, balance, caller, msg, << >>) IN
    (r.code = OK /\ r.st.atomic_exec_registry # s0.atomic_exec_registry) =>
      /\ caller = SYSTEM_ACTOR_ADDR
      /\ to = new_hierarchical(s0.network_name, SCA_ACTOR_ADDR)
      /\ apply_type(msg, s0.network_name) = TopDown

\* C34: commit_child_check by a subnet actor changes nothing and returns
\* USR_ILLEGAL_ARGUMENT when the caller is not the subnet actor of the source
\* of the checkpoint or when the subnet of the caller is not registered, and
\* USR_ILLEGAL_STATE when that subnet is not Active; a checkpoint that is
\* taken is the one of a registered Active subnet, presented by its own actor,
\* and it is listed in the window under the source of that subnet
C34_OnlyActiveChildCommits ==
  \A caller \in SubnetActors, src \in SubnetActors :
    LET sub == get_subnet(st, ChildID(caller)) IN
    \A commit \in ChildCheckpoints(st, src) :
      LET r == commit_child_check(st, balance, curr_epoch, caller, commit)
          Rejected(code) == r.code = code /\ r.st = st /\ r.sends = << >> IN
      /\ caller # subnet_actor(commit.source) => Rejected(USR_ILLEGAL_ARGUMENT)
      /\ (caller = subnet_actor(commit.source) /\ sub = None) =>
           Rejected(USR_ILLEGAL_ARGUMENT)
      /\ (caller = subnet_actor(commit.source) /\ sub # None /\ sub.status # Active) =>
           Rejected(USR_ILLEGAL_STATE)
      /\ r.code = OK =>
           /\ caller = subnet_actor(commit.source)
           /\ sub # None /\ sub.status = Active
           /\ commit.source = ChildID(caller)
           /\ LET window == get_window_checkpoint(r.st, curr_epoch) IN
              \E i \in 1..Len(window.children) :
                /\ window.children[i].source = ChildID(caller)
                /\ \E k \in 1..Len(window.children[i].checks) :
                     window.children[i].checks[k] = Checkpoint_cid(commit)

\* one child has committed a checkpoint; the other, whose collateral fell
\* below the minimum, is refused, and so is the first when it presents a
\* checkpoint of the other
C34_Witness ==
  /\ last = Call("CommitChildCheckpoint", OK)
  /\ \E caller \in SubnetActors, other \in SubnetActors :
       LET sub == get_subnet(st, ChildID(caller)) IN
       /\ caller # other
       /\ sub # None /\ sub.status = Inactive
       /\ \E commit \in ChildCheckpoints(st, caller) :
            /\ commit_child_check(st, balance, curr_epoch, caller, commit).code
                 = USR_ILLEGAL_STATE
            /\ commit_child_check(st, balance, curr_epoch, other, commit).code
                 = USR_ILLEGAL_ARGUMENT

C36_AncestorRoutesUp ==
  LET curr == st.network_name IN
  \A c \in SubnetActors :
    LET Below == {sn \in SubnetIDs :
                    Len(sn) > Len(curr)
                    /\ SubSeq(sn, 1, Len(curr) + 1) = SubnetID_new(curr, c)} IN
    \A from \in Below, to \in Below :
      LET msg == StorableMsg(new_hierarchical(from, PubKey["a"]),
                             new_hierarchical(to, "a"), METHOD_SEND, None,
                             MaxValue, st.applied_topdown_nonce)
          r == apply_msg(st, balance, SYSTEM_ACTOR_ADDR, msg, << >>) IN
      r.code = OK => r.st.subnets = st.subnets

\* C36, amended: in a strict ancestor of the common parent of its ends the
\* message is applied as a top-down message and goes down: with the nonce
\* applied_topdown_nonce and the child on the path to its destination
\* registered it is committed to the top-down queue of that child under the
\* nonce of the child, the supply of the child grows by its value, the window
\* checkpoints stay as they are and nothing is dispatched; otherwise apply_msg
\* fails with USR_ILLEGAL_STATE and changes nothing
C36_AncestorRoutesDown ==
  LET curr == st.network_name IN
  \A c \in SubnetActors :
    LET next == SubnetID_new(curr, c)
        sub == get_subnet(st, next)
        Below == {sn \in SubnetIDs :
                    Len(sn) > Len(curr) /\ SubSeq(sn, 1, Len(curr) + 1) = next} IN
    \A from \in Below, to \in Below :
      \A n \in {st.applied_topdown_nonce, st.applied_topdown_nonce + 1} :
        LET msg == StorableMsg(new_hierarchical(from, PubKey["a"]),
                               new_hierarchical(to, "a"), METHOD_SEND, None,
                               MaxValue, n)
            cp == common_parent(from, to).id
            r == apply_msg(st, balance, SYSTEM_ACTOR_ADDR, msg, << >>) IN
        /\ Len(cp) > Len(curr) /\ SubSeq(cp, 1, Len(curr)) = curr
        /\ apply_type(msg, curr) = TopDown
        /\ IF n = st.applied_topdown_nonce /\ sub # None
           THEN /\ r.code = OK
                /\ r.sends = <<ExternalFunding(msg.value)>>
                /\ r.st.applied_topdown_nonce = st.applied_topdown_nonce + 1
                /\ r.st.applied_bottomup_nonce = st.applied_bottomup_nonce
                /\ r.st.checkpoints = st.checkpoints
                /\ r.st.nonce = st.nonce
                /\ LET sub1 == get_subnet(r.st, next) IN
                   /\ sub1.nonce = sub.nonce + 1
                   /\ sub1.circ_supply = sub.circ_supply + msg.value
                   /\ sub1.top_down_msgs[sub.nonce] = [msg EXCEPT !.nonce = sub.nonce]
                /\ \A id \in DOMAIN st.subnets :
                     id # next => r.st.subnets[id] = st.subnets[id]
           ELSE r.code = USR_ILLEGAL_STATE /\ r.st = st

\* apply_msg has just committed to the queue of a child a message whose ends
\* both lie below that child
C36_Witness ==
  /\ last = Call("ApplyMessage", OK)
  /\ \E id \in DOMAIN st.subnets :
       \E n \in DOMAIN st.subnets[id].top_down_msgs :
         LET m == st.subnets[id].top_down_msgs[n]
             cp == common_parent(m.from.subnet, m.to.subnet).id IN
         /\ Len(cp) > Len(st.network_name)
         /\ SubSeq(cp, 1, Len(id)) = id
         /\ is_bottomup(m.from.subnet, m.to.subnet)

\* C37: in a hierarchy whose subnets are all registered, Active and funded, a
\* cross-message sent by send_cross in subnet A for a subnet B other than A
\* and relayed hop by hop is eventually dispatched in B. Its hops lead from A
\* up to the common parent of A and B, through the checkpoints committed to
\* the parents, and from there down, through the top-down queues, to B; it
\* is dispatched in no other subnet and once; at every hop the SCA holds it
\* where the route says, and every operation on it puts it in exactly one
\* place: the window checkpoint for the parent, the metas received from the
\* children, the queue of one child, or the dispatch; the SCA of the next hop
\* accepts the operation that relays it
C37_Relayed ==
  /\ [](route # << >> =>
          LET IsPrefix(p, q) == Len(p) <= Len(q) /\ SubSeq(q, 1, Len(p)) = p
              A == route[1].msg.from.subnet
              B == route[1].msg.to.subnet
              cp == common_parent(A, B).id
              last_hop == route[Len(route)]
              metas == get_window_checkpoint(st, curr_epoch).cross_msgs
              InWindow == \E k \in 1..Len(metas) :
                            metas[k].to = B /\ metas[k].value = last_hop.msg.value
              next == SubnetID_down(B, last_hop.subnet) IN
          /\ st.network_name = last_hop.subnet
          /\ last_hop.dir = "up" => InWindow
          /\ last_hop.dir = "turn" =>
               IF B = last_hop.subnet
               THEN \E n \in DOMAIN st.bottomup_msg_meta :
                      /\ st.bottomup_msg_meta[n].to = B
                      /\ st.bottomup_msg_meta[n].value = last_hop.msg.value
               ELSE InWindow
          /\ last_hop.dir = "down" =>
               /\ next \in DOMAIN st.subnets
               /\ \E n \in DOMAIN st.subnets[next].top_down_msgs :
                    st.subnets[next].top_down_msgs[n] = last_hop.msg
          /\ \A i \in 1..Len(route) :
               LET h == route[i] IN
               /\ h.msg.from.subnet = A /\ h.msg.to.subnet = B
               /\ h.msg.value = route[1].msg.value
               /\ h.dir = "up" =>
                    IsPrefix(cp, h.subnet) /\ h.subnet # cp /\ IsPrefix(h.subnet, A)
               /\ h.dir = "turn" => h.subnet = cp /\ A # cp
               /\ h.dir = "down" =>
                    IsPrefix(cp, h.subnet) /\ h.subnet # B /\ IsPrefix(h.subnet, B)
               /\ h.dir = "run" => h.subnet = B /\ i = Len(route)
               /\ i = 1 => h.subnet = A /\ A # B /\ h.dir \in {"up", "down"}
               /\ i > 1 =>
                    LET g == route[i - 1] IN
                    /\ g.dir = "up" =>
                         h.subnet = SubnetID_parent(g.subnet) /\ h.dir \in {"up", "turn"}
                    /\ g.dir = "turn" =>
                         h.subnet = g.subnet /\ h.dir \in {"down", "run"}
                    /\ g.dir = "down" =>
                         h.subnet = SubnetID_down(B, g.subnet) /\ h.dir \in {"down", "run"}
                    /\ g.dir # "run")
  /\ [][route' # route =>
          LET h == route'[Len(route')]
              base == IF route # << >> /\ route[Len(route)].subnet = h.subnet
                      THEN st ELSE RelaySetup[h.subnet]
              up == get_window_checkpoint(st', curr_epoch).cross_msgs
                      # get_window_checkpoint(base, curr_epoch).cross_msgs
              stored == st'.bottomup_msg_meta # base.bottomup_msg_meta
              queued == {id \in DOMAIN st'.subnets :
                           st'.subnets[id].top_down_msgs # base.subnets[id].top_down_msgs}
              run == h.dir = "run" IN
          /\ Cardinality(queued) <= 1
          /\ Cardinality({k \in 1..4 :
                            \/ k = 1 /\ up
                            \/ k = 2 /\ stored
                            \/ k = 3 /\ queued # {}
                            \/ k = 4 /\ run}) = 1
          /\ up => h.dir \in {"up", "turn"}
          /\ stored => h.dir = "turn"
          /\ queued # {} <=> h.dir = "down"
          /\ h.dir = "down" => queued = {SubnetID_down(h.msg.to.subnet, h.subnet)}
       ]_vars
  /\ [](Relaying =>
          LET hop == route[Len(route)]
              to == hop.msg.to.subnet
              curr == IF hop.dir = "turn" THEN hop.subnet
                      ELSE SubnetID_down(to, hop.subnet) IN
          IF hop.dir = "up"
          THEN commit_child_check(RelaySetup[SubnetID_parent(hop.subnet)], RelayBalance,
                                  curr_epoch, subnet_actor(hop.subnet),
                                  get_window_checkpoint(st, curr_epoch)).code = OK
          ELSE apply_msg(IF hop.dir = "turn" THEN st ELSE RelaySetup[curr],
                         IF hop.dir = "turn" THEN balance ELSE RelayBalance,
                         SYSTEM_ACTOR_ADDR, hop.msg, << >>).code = OK)
  /\ (route # << >>) ~> (route # << >>
                           /\ route[Len(route)].dir = "run"
                           /\ route[Len(route)].subnet = route[1].msg.to.subnet)

\* a message sent in a subnet two levels below the root for a subnet of the
\* other subtree has been dispatched there, after going up to the root and down
C37_Witness ==
  /\ route # << >>
  /\ last = Call("ApplyMessage", OK)
  /\ route[Len(route)].dir = "run"
  /\ route[Len(route)].subnet = route[1].msg.to.subnet
  /\ Len(route[1].subnet) = MaxDepth
  /\ Len(route[Len(route)].subnet) = MaxDepth
  /\ \E i, j, k \in 1..Len(route) :
       /\ i < j /\ j < k
       /\ route[i].dir = "up"
       /\ route[j].dir = "turn" /\ route[j].subnet = ROOTNET_ID
       /\ route[k].dir = "down"

C39_SubmitBySender ==
  \A cid \in DOMAIN st.atomic_exec_registry :
    LET exec == st.atomic_exec_registry[cid] IN
    ( /\ exec.status = Initialized
      /\ \A k \in DOMAIN exec.params.inputs : k.subnet \in DOMAIN st.subnets ) =>
      \A from \in DOMAIN exec.params.inputs, output \in Outputs,
         n \in {st.applied_bottomup_nonce, st.applied_bottomup_nonce + 1} :
        ( /\ from.raw \notin DOMAIN exec.submitted
          /\ \A p \in DOMAIN exec.submitted : exec.submitted[p] = Cid(output) ) =>
          \A ks \in ExecOrders(st, cid) :
            LET msg == StorableMsg(from,
                                   new_hierarchical(st.network_name, SCA_ACTOR_ADDR),
                                   SubmitAtomicExec,
                                   SubmitExecParams(cid, FALSE, output), 0, n)
                r == apply_msg(st, balance, SYSTEM_ACTOR_ADDR, msg, ks) IN
            /\ r.code = OK
            /\ DOMAIN r.st.atomic_exec_registry[cid].submitted
                 = DOMAIN exec.submitted \cup {from.raw}

\* C40: a kill that succeeds removes the record of the subnet, and the same
\* subnet actor can register again with at least min_stake: the new record
\* has the value sent as stake, status Active, nonce 0, circ_supply 0, no
\* top-down message and no previous checkpoint, and the rest of the state is
\* as before the kill; the first message funded to it takes nonce 0, and no
\* checkpoint it commits is refused for its prev_check, whether it points to
\* nothing or to the checkpoint committed before the kill. Every record that
\* enters the registry is such a record
C40_RegisterAfterKill ==
  /\ [](\A caller \in SubnetActors :
          LET id == SubnetID_new(st.network_name, caller)
              k == kill(st, balance, caller) IN
          k.code = OK =>
            /\ get_subnet(k.st, id) = None
            /\ \A value \in 1..MaxStake :
                 LET r == register(k.st, caller, value)
                     fresh == [id |-> id, stake |-> value, top_down_msgs |-> EmptyAmt,
                               nonce |-> 0, circ_supply |-> 0, status |-> Active,
                               prev_checkpoint |-> None]
                     f == fund(r.st, "a", MaxValue, id) IN
                 IF value < st.min_stake
                 THEN r.code = USR_ILLEGAL_ARGUMENT /\ r.st = k.st
                 ELSE /\ r.code = OK
                      /\ r.ret = id
                      /\ r.st = [st EXCEPT !.subnets[id] = fresh]
                      /\ f.code = OK
                      /\ DOMAIN f.st.subnets[id].top_down_msgs = {0}
                      /\ f.st.subnets[id].top_down_msgs[0].nonce = 0
                      /\ \A commit \in ChildCheckpoints(st, caller) :
                           prev_checkpoint_checks(get_subnet(r.st, id), commit) = OK)
  /\ [][\A id \in DOMAIN st'.subnets \ DOMAIN st.subnets :
          LET sub == st'.subnets[id] IN
          /\ last' = Call("Register", OK)
          /\ sub.stake >= st.min_stake
          /\ sub = [id |-> id, stake |-> sub.stake, top_down_msgs |-> EmptyAmt,
                    nonce |-> 0, circ_supply |-> 0, status |-> Active,
                    prev_checkpoint |-> None]]_vars

\* a subnet that had been funded committed a checkpoint that released its
\* supply, was killed and has just registered again: its record is new while
\* the window checkpoint still lists the checkpoint committed before the kill
C40_Witness ==
  /\ last = Call("Register", OK)
  /\ calls > 0
  /\ \E caller \in SubnetActors :
       LET sub == get_subnet(st, ChildID(caller))
           window == get_window_checkpoint(st, curr_epoch) IN
       /\ sub # None
       /\ sub.nonce = 0 /\ sub.prev_checkpoint = None /\ sub.top_down_msgs = EmptyAmt
       /\ released[caller] = 0
       /\ \E i \in 1..Len(window.children) : window.children[i].source = ChildID(caller)
       /\ window.cross_msgs # << >>

====
